---- MODULE Spec2Model ----
(***************************************************************************)
(* Model of the SoundBank codec of re-sound (src/src/bnk).                 *)
(*                                                                         *)
(* Streams are sequences of bytes (0..255).  A reader is a cursor over an  *)
(* in-memory buffer (io::Cursor, as the tests of the crate use it): a      *)
(* record [data, pos].  A writer is a cursor over a growable vector: a     *)
(* record [buf, pos].  Every decoder returns [ok, r, v, e]: success flag,  *)
(* the reader after the call, the decoded value and the error.  The host   *)
(* is little endian (the crate reads DIDX records and Event ids by memory  *)
(* reinterpretation; the banks are X64 files).                             *)
(*                                                                         *)
(* Every stream of the model is far shorter than 2^31 bytes and every u32  *)
(* read from it is below 2^31, so sums of lengths and positions never wrap *)
(* and are plain integers.  The unsigned subtractions of the code that can *)
(* go below zero are modelled one by one: a panic where overflow checks    *)
(* are on, the wrapped value Wrapped(w, k) = 2^w - k where they are off.   *)
(***************************************************************************)
EXTENDS Integers, Sequences, FiniteSets, TLC

VARIABLES input, pc, bnk, err, sink, preBnk, prevBnk, prevSink, nwrites, nmut,
          entry, preEntry, pp, consumed, reread, fault, loop, wem, hist

vars == <<input, pc, bnk, err, sink, preBnk, prevBnk, prevSink, nwrites, nmut,
          entry, preEntry, pp, consumed, reread, fault, loop, wem, hist>>

(***************************************************************************)
(* Bounds of the model.                                                    *)
(***************************************************************************)
MaxBlobLen == 2
MaxWrites == 2
MaxMutations == 1
MaxFaultAt == 10
MaxTurns == 6
MaxReads == 3
MaxBufLen == 4

(***************************************************************************)
(* Program constants.                                                      *)
(***************************************************************************)
DidxEntrySize == 12
BkhdFixedSize == 8
IdSize == 4

Builds == {"debug", "release"}

Byte == 0..255

MAGIC_BKHD == <<66, 75, 72, 68>>
MAGIC_DIDX == <<68, 73, 68, 88>>
MAGIC_DATA == <<68, 65, 84, 65>>
MAGIC_HIRC == <<72, 73, 82, 67>>

(***************************************************************************)
(* Little-endian scalars (byteorder / binrw primitives).                   *)
(***************************************************************************)
u32_from_le(b) == b[1] + 256 * b[2] + 65536 * b[3] + 16777216 * b[4]

u32_to_le(n) ==
    <<n % 256, (n \div 256) % 256, (n \div 65536) % 256, (n \div 16777216) % 256>>

Zeros(n) == [i \in 1..n |-> 0]

Max(a, b) == IF a >= b THEN a ELSE b

(***************************************************************************)
(* Errors (BnkError) and results.  Bind is the `?` operator: the rest of   *)
(* the function runs on the result of a call that succeeded, a failure is  *)
(* returned as it is.  With names a value for the rest of the function.    *)
(***************************************************************************)
NoErr == [kind |-> "none"]
ErrIO == [kind |-> "IO", io |-> "UnexpectedEof"]
ErrIOOther == [kind |-> "IO", io |-> "Other"]
ErrMissingDidx == [kind |-> "MissingDidx"]
ErrPanic == [kind |-> "panic"]
ErrBinrw(what) == [kind |-> "Binrw", what |-> what]
ErrBadDataSize(name, expected, got, start) ==
    [kind |-> "BadDataSize", name |-> name, expected |-> expected, got |-> got,
     start |-> start]

Ok(r, v) == [ok |-> TRUE, r |-> r, v |-> v, e |-> NoErr]
Fail(r, e) == [ok |-> FALSE, r |-> r, v |-> <<>>, e |-> e]

Bind(res, K(_)) == IF res.ok THEN K(res) ELSE res

With(x, K(_)) == K(x)

None == [some |-> FALSE]
Some(x) == [some |-> TRUE, x |-> x]

unwrap_or(opt, dflt) == IF opt.some THEN opt.x ELSE dflt

(***************************************************************************)
(* The reader (R: io::Read + io::Seek).  It is an io::Cursor over the      *)
(* bytes of the stream; read_exact on a cursor that is short of bytes      *)
(* fails with UnexpectedEof and leaves the cursor at the end.  A reader    *)
(* with fault = k > 0 stands for a device whose k-th read fails once with  *)
(* an error other than UnexpectedEof, before it has given any byte.        *)
(***************************************************************************)
Reader(data) == [data |-> data, pos |-> 0, fault |-> 0]

FaultyReader(data, k) == [data |-> data, pos |-> 0, fault |-> k]

\* The reads left before the failure, after one more read.
AfterRead(k) == IF k > 0 THEN k - 1 ELSE 0

\* read_exact into an empty buffer asks the device for nothing.
read_exact(r, n) ==
    IF n = 0 THEN Ok(r, <<>>)
    ELSE IF r.fault = 1 THEN Fail([r EXCEPT !.fault = 0], ErrIOOther)
    ELSE IF r.pos + n <= Len(r.data)
    THEN Ok([r EXCEPT !.pos = r.pos + n, !.fault = AfterRead(r.fault)],
            SubSeq(r.data, r.pos + 1, r.pos + n))
    ELSE Fail([r EXCEPT !.pos = Len(r.data), !.fault = AfterRead(r.fault)], ErrIO)

read_u8(r) == Bind(read_exact(r, 1), LAMBDA x : Ok(x.r, x.v[1]))

read_u32(r) == Bind(read_exact(r, 4), LAMBDA x : Ok(x.r, u32_from_le(x.v)))

seek(r, p) == [r EXCEPT !.pos = p]

(***************************************************************************)
(* io::Cursor<&mut Vec<u8>> as a writer: a write past the end of the       *)
(* vector first pads the gap with zeros; write_all of an empty slice does  *)
(* nothing.                                                                *)
(***************************************************************************)
Writer == [buf |-> <<>>, pos |-> 0]

write_all(w, bytes) ==
    IF Len(bytes) = 0 THEN w
    ELSE [buf |-> [i \in 1..Max(Len(w.buf), w.pos + Len(bytes)) |->
                     IF i > w.pos /\ i <= w.pos + Len(bytes) THEN bytes[i - w.pos]
                     ELSE IF i <= Len(w.buf) THEN w.buf[i]
                     ELSE 0],
          pos |-> w.pos + Len(bytes)]

write_u8(w, b) == write_all(w, <<b>>)

write_u32(w, n) == write_all(w, u32_to_le(n))

wseek(w, p) == [w EXCEPT !.pos = p]

WOk(w, v) == [ok |-> TRUE, w |-> w, v |-> v, e |-> NoErr]
WFail(w, v, e) == [ok |-> FALSE, w |-> w, v |-> v, e |-> e]

(***************************************************************************)
(* binrw primitives: little-endian integers of 1, 2 and 4 bytes, counted   *)
(* vectors (#[br(count = n)]) of fixed-size records.  A record made only   *)
(* of fixed-width scalars is kept as the span of its bytes: binrw reads    *)
(* and writes the scalars of such a record in declaration order.           *)
(***************************************************************************)
RECURSIVE uint_from_le(_)
uint_from_le(b) ==
    IF Len(b) = 0 THEN 0 ELSE b[1] + 256 * uint_from_le(Tail(b))

RECURSIVE uint_to_le(_, _)
uint_to_le(n, width) ==
    IF width = 0 THEN <<>> ELSE <<n % 256>> \o uint_to_le(n \div 256, width - 1)

RECURSIVE Flatten(_)
Flatten(ss) == IF Len(ss) = 0 THEN <<>> ELSE Head(ss) \o Flatten(Tail(ss))

BinrwEof == ErrBinrw("Io")

\* binrw wraps the io::Error of a failed read in binrw::Error::Io.
br_bytes(r, n) ==
    IF n = 0 THEN Ok(r, <<>>)
    ELSE IF r.fault = 1 THEN Fail([r EXCEPT !.fault = 0], BinrwEof)
    ELSE IF r.pos + n <= Len(r.data)
    THEN Ok([r EXCEPT !.pos = r.pos + n, !.fault = AfterRead(r.fault)],
            SubSeq(r.data, r.pos + 1, r.pos + n))
    ELSE Fail([r EXCEPT !.pos = Len(r.data), !.fault = AfterRead(r.fault)], BinrwEof)

br_uint(r, width) == Bind(br_bytes(r, width), LAMBDA x : Ok(x.r, uint_from_le(x.v)))

\* Vec<T> with #[br(count = n)], T a record of size bytes.  A count above the
\* length of the stream cannot be served.
br_vec_fixed(r, n, size) ==
    Bind(IF n > Len(r.data) THEN Fail([r EXCEPT !.pos = Len(r.data)], BinrwEof)
         ELSE br_bytes(r, n * size),
         LAMBDA x : Ok(x.r, [i \in 1..n |-> SubSeq(x.v, (i - 1) * size + 1, i * size)]))

\* A count field of the given width followed by count records of size bytes.
br_counted_fixed(r, width, size) ==
    Bind(br_uint(r, width), LAMBDA n :
    Bind(br_vec_fixed(n.r, n.v, size), LAMBDA xs :
    Ok(xs.r, [n |-> n.v, items |-> xs.v])))

\* binrw writes the count as stored and every element of the vector.
bw_counted_fixed(v, width) == uint_to_le(v.n, width) \o Flatten(v.items)

\* The bytes binrw writes for a Vec<T>, T written by the encoder Elem.
bw_vec(vs, Elem(_)) == Flatten([i \in 1..Len(vs) |-> Elem(vs[i])])

(***************************************************************************)
(* common.rs: PositioningParams.                                           *)
(***************************************************************************)
AkPathVertexSize == 16
AkPathListItemOffsetSize == 8
Ak3DAutomationParamsSize == 12
AkPathModeMax == 5

Bit(b, k) == (b \div (2 ^ k)) % 2

AkPathMode_read(r) ==
    Bind(br_uint(r, 1), LAMBDA x :
    IF x.v <= AkPathModeMax THEN x ELSE Fail(r, ErrBinrw("NoVariantMatch")))

PositioningParams_default ==
    [bits_positioning |-> 0, bits_3d |-> 0, is_dynamic |-> 0, e_path_mode |-> 0,
     transition_time |-> Zeros(4), vertices |-> <<>>, play_list_items |-> <<>>,
     params |-> <<>>]

Has3dBits_positioningonly(bits_positioning) == Bit(bits_positioning, 0) # 0

\* has_positioning && has_3d: the condition under which bits_3d is read.
Has3dBits(bits_positioning) ==
    Bit(bits_positioning, 0) # 0 /\ Bit(bits_positioning, 1) # 0

PositioningParams_read_options(r) ==
    Bind(br_uint(r, 1), LAMBDA bits_positioning :
    LET e3d_position_type == (bits_positioning.v \div 32) % 4
        has_automation == e3d_position_type # 0
    IN
    Bind(IF Has3dBits(bits_positioning.v) THEN br_uint(bits_positioning.r, 1)
         ELSE Ok(bits_positioning.r, 0), LAMBDA bits_3d :
    IF ~has_automation
    THEN Ok(bits_3d.r, [PositioningParams_default EXCEPT
                           !.bits_positioning = bits_positioning.v,
                           !.bits_3d = bits_3d.v])
    ELSE
    Bind(AkPathMode_read(bits_3d.r), LAMBDA e_path_mode :
    Bind(br_bytes(e_path_mode.r, 4), LAMBDA transition_time :
    Bind(br_counted_fixed(transition_time.r, 4, AkPathVertexSize), LAMBDA vertices :
    Bind(br_counted_fixed(vertices.r, 4, AkPathListItemOffsetSize),
         LAMBDA play_list_items :
    Bind(br_vec_fixed(play_list_items.r, play_list_items.v.n,
                      Ak3DAutomationParamsSize), LAMBDA params :
    Ok(params.r, [bits_positioning |-> bits_positioning.v,
                  bits_3d |-> bits_3d.v,
                  is_dynamic |-> 0,
                  e_path_mode |-> e_path_mode.v,
                  transition_time |-> transition_time.v,
                  vertices |-> vertices.v.items,
                  play_list_items |-> play_list_items.v.items,
                  params |-> params.v]))))))))

PositioningParams_write_options(p) ==
    <<p.bits_positioning>>
    \o (IF Bit(p.bits_positioning, 0) # 0 THEN <<p.bits_3d>> ELSE <<>>)
    \o (IF (p.bits_positioning \div 32) % 4 # 0
        THEN <<p.e_path_mode>> \o p.transition_time
             \o u32_to_le(Len(p.vertices)) \o Flatten(p.vertices)
             \o u32_to_le(Len(p.play_list_items)) \o Flatten(p.play_list_items)
             \o Flatten(p.params)
        ELSE <<>>)

(***************************************************************************)
(* common.rs: the records of NodeBaseParams.                               *)
(***************************************************************************)
NodeBaseHeadSize == 14
AkPropBundleElemSize == 5
AdvSettingsParamsSize == 6
AkStatePropertyInfoSize == 3
AkStateSize == 8
AkRTPCGraphPointSize == 12
InitialRTPCCurveHeadSize == 12

AkPropBundle_read(r) == br_counted_fixed(r, 1, AkPropBundleElemSize)
AkPropBundle_write(v) == bw_counted_fixed(v, 1)

NodeInitialParams_read(r) ==
    Bind(AkPropBundle_read(r), LAMBDA b1 :
    Bind(AkPropBundle_read(b1.r), LAMBDA b2 :
    Ok(b2.r, [ak_prop_bundle1 |-> b1.v, ak_prop_bundle2 |-> b2.v])))

NodeInitialParams_write(v) ==
    AkPropBundle_write(v.ak_prop_bundle1) \o AkPropBundle_write(v.ak_prop_bundle2)

AuxParams_read(r) ==
    Bind(br_uint(r, 1), LAMBDA bv :
    Bind(IF Bit(bv.v, 3) # 0 THEN br_bytes(bv.r, 16) ELSE Ok(bv.r, Zeros(16)),
         LAMBDA ids :
    Bind(br_bytes(ids.r, 4), LAMBDA rb :
    Ok(rb.r, [by_bit_vector |-> bv.v, aux_ids |-> ids.v,
              reflections_aux_bus |-> rb.v]))))

AuxParams_write(v) ==
    <<v.by_bit_vector>>
    \o (IF Bit(v.by_bit_vector, 3) # 0 THEN v.aux_ids ELSE <<>>)
    \o v.reflections_aux_bus

\* AkStateGroupChunk: state_group_id u32, state_sync_type u8, num_states u8, states.
AkStateGroupChunk_read(r) ==
    Bind(br_bytes(r, 5), LAMBDA h :
    Bind(br_counted_fixed(h.r, 1, AkStateSize), LAMBDA st :
    Ok(st.r, [head |-> h.v, states |-> st.v])))

AkStateGroupChunk_write(v) == v.head \o bw_counted_fixed(v.states, 1)

RECURSIVE AkStateGroupChunk_read_vec(_, _, _)
AkStateGroupChunk_read_vec(r, n, acc) ==
    IF n = 0 THEN Ok(r, acc)
    ELSE Bind(AkStateGroupChunk_read(r), LAMBDA x :
         AkStateGroupChunk_read_vec(x.r, n - 1, Append(acc, x.v)))

StateChunk_read(r) ==
    Bind(br_counted_fixed(r, 1, AkStatePropertyInfoSize), LAMBDA props :
    Bind(br_uint(props.r, 1), LAMBDA ng :
    Bind(AkStateGroupChunk_read_vec(ng.r, ng.v, <<>>), LAMBDA gs :
    Ok(gs.r, [state_props |-> props.v, num_state_groups |-> ng.v,
              state_groups |-> gs.v]))))

StateChunk_write(v) ==
    bw_counted_fixed(v.state_props, 1) \o <<v.num_state_groups>>
    \o bw_vec(v.state_groups, AkStateGroupChunk_write)

\* InitialRTPCCurve: 12 bytes of scalars, size u16, rtpc_mgr.
InitialRTPCCurve_read(r) ==
    Bind(br_bytes(r, InitialRTPCCurveHeadSize), LAMBDA h :
    Bind(br_counted_fixed(h.r, 2, AkRTPCGraphPointSize), LAMBDA pts :
    Ok(pts.r, [head |-> h.v, rtpc_mgr |-> pts.v])))

InitialRTPCCurve_write(v) == v.head \o bw_counted_fixed(v.rtpc_mgr, 2)

RECURSIVE InitialRTPCCurve_read_vec(_, _, _)
InitialRTPCCurve_read_vec(r, n, acc) ==
    IF n = 0 THEN Ok(r, acc)
    ELSE Bind(InitialRTPCCurve_read(r), LAMBDA x :
         InitialRTPCCurve_read_vec(x.r, n - 1, Append(acc, x.v)))

InitialRTPC_read(r) ==
    Bind(br_uint(r, 2), LAMBDA n :
    Bind(InitialRTPCCurve_read_vec(n.r, n.v, <<>>), LAMBDA cs :
    Ok(cs.r, [num_curves |-> n.v, curves |-> cs.v])))

InitialRTPC_write(v) ==
    uint_to_le(v.num_curves, 2) \o bw_vec(v.curves, InitialRTPCCurve_write)

NodeBaseParams_read(r) ==
    Bind(br_bytes(r, NodeBaseHeadSize), LAMBDA h :
    Bind(NodeInitialParams_read(h.r), LAMBDA nip :
    Bind(PositioningParams_read_options(nip.r), LAMBDA pos :
    Bind(AuxParams_read(pos.r), LAMBDA aux :
    Bind(br_bytes(aux.r, AdvSettingsParamsSize), LAMBDA adv :
    Bind(StateChunk_read(adv.r), LAMBDA sc :
    Bind(InitialRTPC_read(sc.r), LAMBDA rtpc :
    Ok(rtpc.r, [head |-> h.v, node_initial_params |-> nip.v,
                positioning_params |-> pos.v, aux_params |-> aux.v,
                adv_settings_params |-> adv.v, state_chunk |-> sc.v,
                initial_rtpc |-> rtpc.v]))))))))

NodeBaseParams_write(v) ==
    v.head \o NodeInitialParams_write(v.node_initial_params)
    \o PositioningParams_write_options(v.positioning_params)
    \o AuxParams_write(v.aux_params) \o v.adv_settings_params
    \o StateChunk_write(v.state_chunk) \o InitialRTPC_write(v.initial_rtpc)

(***************************************************************************)
(* music_segment.rs                                                        *)
(***************************************************************************)
AkMeterInfoSize == 22
CAkStingerSize == 24
AkMusicMarkerHeadSize == 12

Children_read(r) == br_counted_fixed(r, 4, 4)
Children_write(v) == bw_counted_fixed(v, 4)

\* MusicNodeParams: flags, node_base_params, children, ak_meter_info and
\* b_meter_info_flag (one span of scalars), num_stingers, stingers.
MusicNodeParams_read(r) ==
    Bind(br_uint(r, 1), LAMBDA fl :
    Bind(NodeBaseParams_read(fl.r), LAMBDA nbp :
    Bind(Children_read(nbp.r), LAMBDA ch :
    Bind(br_bytes(ch.r, AkMeterInfoSize + 1), LAMBDA mi :
    Bind(br_counted_fixed(mi.r, 4, CAkStingerSize), LAMBDA st :
    Ok(st.r, [flags |-> fl.v, node_base_params |-> nbp.v, children |-> ch.v,
              ak_meter_info |-> mi.v, stingers |-> st.v]))))))

MusicNodeParams_write(v) ==
    <<v.flags>> \o NodeBaseParams_write(v.node_base_params)
    \o Children_write(v.children) \o v.ak_meter_info
    \o bw_counted_fixed(v.stingers, 4)

\* binrw::NullString: the bytes up to, and without, the terminating zero.
RECURSIVE NullString_read(_, _)
NullString_read(r, acc) ==
    Bind(br_uint(r, 1), LAMBDA b :
    IF b.v = 0 THEN Ok(b.r, acc) ELSE NullString_read(b.r, Append(acc, b.v)))

NullString_write(v) == v \o <<0>>

AkMusicMarkerWwise_read(r) ==
    Bind(br_bytes(r, AkMusicMarkerHeadSize), LAMBDA h :
    Bind(NullString_read(h.r, <<>>), LAMBDA nm :
    Ok(nm.r, [head |-> h.v, marker_name |-> nm.v])))

AkMusicMarkerWwise_write(v) == v.head \o NullString_write(v.marker_name)

RECURSIVE AkMusicMarkerWwise_read_vec(_, _, _)
AkMusicMarkerWwise_read_vec(r, n, acc) ==
    IF n = 0 THEN Ok(r, acc)
    ELSE Bind(AkMusicMarkerWwise_read(r), LAMBDA x :
         AkMusicMarkerWwise_read_vec(x.r, n - 1, Append(acc, x.v)))

MusicSegmentInitialValues_read(r) ==
    Bind(MusicNodeParams_read(r), LAMBDA mnp :
    Bind(br_bytes(mnp.r, 8), LAMBDA du :
    Bind(br_uint(du.r, 4), LAMBDA nm :
    Bind(AkMusicMarkerWwise_read_vec(nm.r, nm.v, <<>>), LAMBDA ms :
    Ok(ms.r, [music_node_params |-> mnp.v, duration |-> du.v,
              num_markers |-> nm.v, markers |-> ms.v])))))

MusicSegmentInitialValues_write(v) ==
    MusicNodeParams_write(v.music_node_params) \o v.duration
    \o u32_to_le(v.num_markers)
    \o bw_vec(v.markers, AkMusicMarkerWwise_write)

(***************************************************************************)
(* The byte-accounting check shared by the three music decoders:           *)
(* `read_size != length as u64 - 4`.  The subtraction is done in u64: with *)
(* length < 4 it panics when overflow checks are on (debug build) and      *)
(* wraps when they are off (release build).                                *)
(***************************************************************************)
\* A u64 is kept as 2^pow + plus (pow = 0: plus alone), so that a wrapped
\* value and the difference it stands for are different values.
Exact(n) == [pow |-> 0, plus |-> n]
Wrapped(w, k) == [pow |-> w, plus |-> 0 - k]

CheckReadSize(name, res, pos_start, length, build) ==
    IF ~res.ok THEN Fail(res.r, [kind |-> "Binrw", what |-> res.e.what])
    ELSE IF length < IdSize /\ build = "debug" THEN Fail(res.r, ErrPanic)
    ELSE IF length < IdSize
    THEN Fail(res.r, ErrBadDataSize(name, Wrapped(64, IdSize - length),
                                    res.r.pos - pos_start, pos_start))
    ELSE IF res.r.pos - pos_start # length - IdSize
    THEN Fail(res.r, ErrBadDataSize(name, Exact(length - IdSize),
                                    res.r.pos - pos_start, pos_start))
    ELSE Ok(res.r, res.v)

HircMusicSegment_from_reader(r, length, build) ==
    CheckReadSize("MusicSegment", MusicSegmentInitialValues_read(r), r.pos, length, build)

HircMusicSegment_write_to(v) == MusicSegmentInitialValues_write(v)

(***************************************************************************)
(* music_track.rs                                                          *)
(***************************************************************************)
AkBankSourceDataSize == 14
AkTrackSrcInfoSize == 44
AkClipAutomationHeadSize == 8
SwitchParamsHeadSize == 9
TransParamsSize == 32
AkMusicTrackType_Switch == 3

AkClipAutomation_read(r) ==
    Bind(br_bytes(r, AkClipAutomationHeadSize), LAMBDA h :
    Bind(br_counted_fixed(h.r, 4, AkRTPCGraphPointSize), LAMBDA pts :
    Ok(pts.r, [head |-> h.v, graph_points |-> pts.v])))

AkClipAutomation_write(v) == v.head \o bw_counted_fixed(v.graph_points, 4)

RECURSIVE AkClipAutomation_read_vec(_, _, _)
AkClipAutomation_read_vec(r, n, acc) ==
    IF n = 0 THEN Ok(r, acc)
    ELSE Bind(AkClipAutomation_read(r), LAMBDA x :
         AkClipAutomation_read_vec(x.r, n - 1, Append(acc, x.v)))

AkMusicTrackType_read(r) ==
    Bind(br_uint(r, 1), LAMBDA x :
    IF x.v <= AkMusicTrackType_Switch THEN x ELSE Fail(r, ErrBinrw("NoVariantMatch")))

SwitchParams_read(r) ==
    Bind(br_bytes(r, SwitchParamsHeadSize), LAMBDA h :
    Bind(br_counted_fixed(h.r, 4, 4), LAMBDA sa :
    Ok(sa.r, [head |-> h.v, switch_assoc |-> sa.v])))

SwitchParams_write(v) == v.head \o bw_counted_fixed(v.switch_assoc, 4)

\* num_sub_track is under #[br(if(num_playlist_items > 0))]; switch_params and
\* trans_params are Options under #[br(if(track_type == Switch))].
MusicTrackInitialValues_read(r) ==
    Bind(br_uint(r, 1), LAMBDA fl :
    Bind(br_counted_fixed(fl.r, 4, AkBankSourceDataSize), LAMBDA src :
    Bind(br_counted_fixed(src.r, 4, AkTrackSrcInfoSize), LAMBDA pl :
    Bind(IF pl.v.n > 0 THEN br_uint(pl.r, 4) ELSE Ok(pl.r, 0), LAMBDA nst :
    Bind(br_uint(nst.r, 4), LAMBDA nca :
    Bind(AkClipAutomation_read_vec(nca.r, nca.v, <<>>), LAMBDA ca :
    Bind(NodeBaseParams_read(ca.r), LAMBDA nbp :
    Bind(AkMusicTrackType_read(nbp.r), LAMBDA tt :
    Bind(IF tt.v = AkMusicTrackType_Switch
         THEN Bind(SwitchParams_read(tt.r), LAMBDA x : Ok(x.r, Some(x.v)))
         ELSE Ok(tt.r, None), LAMBDA sp :
    Bind(IF tt.v = AkMusicTrackType_Switch
         THEN Bind(br_bytes(sp.r, TransParamsSize), LAMBDA x : Ok(x.r, Some(x.v)))
         ELSE Ok(sp.r, None), LAMBDA tp :
    Bind(br_bytes(tp.r, 4), LAMBDA la :
    Ok(la.r, [flags |-> fl.v, sources |-> src.v, playlist |-> pl.v,
              num_sub_track |-> nst.v, num_clip_automations |-> nca.v,
              clip_automations |-> ca.v, node_base_params |-> nbp.v,
              track_type |-> tt.v, switch_params |-> sp.v, trans_params |-> tp.v,
              look_ahead_time |-> la.v]))))))))))))

MusicTrackInitialValues_write(v) ==
    <<v.flags>> \o bw_counted_fixed(v.sources, 4) \o bw_counted_fixed(v.playlist, 4)
    \o (IF v.playlist.n > 0 THEN u32_to_le(v.num_sub_track) ELSE <<>>)
    \o u32_to_le(v.num_clip_automations)
    \o bw_vec(v.clip_automations, AkClipAutomation_write)
    \o NodeBaseParams_write(v.node_base_params)
    \o <<v.track_type>>
    \o (IF v.track_type = AkMusicTrackType_Switch /\ v.switch_params.some
        THEN SwitchParams_write(v.switch_params.x) ELSE <<>>)
    \o (IF v.track_type = AkMusicTrackType_Switch /\ v.trans_params.some
        THEN v.trans_params.x ELSE <<>>)
    \o v.look_ahead_time

HircMusicTrack_from_reader(r, length, build) ==
    CheckReadSize("MusicTrackInitialValues", MusicTrackInitialValues_read(r), r.pos,
                  length, build)

HircMusicTrack_write_to(v) == MusicTrackInitialValues_write(v)

(***************************************************************************)
(* music_ran_sec_cntr.rs                                                   *)
(***************************************************************************)
AkMusicTransitionRuleSize == 64
PlaylistItemHeadSize == 8
PlaylistItemMidSize == 18

MusicTransNodeParams_read(r) ==
    Bind(MusicNodeParams_read(r), LAMBDA mnp :
    Bind(br_counted_fixed(mnp.r, 4, AkMusicTransitionRuleSize), LAMBDA rules :
    Ok(rules.r, [music_node_params |-> mnp.v, rules |-> rules.v])))

MusicTransNodeParams_write(v) ==
    MusicNodeParams_write(v.music_node_params) \o bw_counted_fixed(v.rules, 4)

\* AkMusicRanSeqPlaylistItem: segment_id, play_list_item_id (head), num_children,
\* rs_type .. is_shuffle (mid), play_list with #[br(count = num_children)].
RECURSIVE AkMusicRanSeqPlaylistItem_read(_)
RECURSIVE AkMusicRanSeqPlaylistItem_read_vec(_, _, _)
AkMusicRanSeqPlaylistItem_read(r) ==
    Bind(br_bytes(r, PlaylistItemHeadSize), LAMBDA h :
    Bind(br_uint(h.r, 4), LAMBDA nc :
    Bind(br_bytes(nc.r, PlaylistItemMidSize), LAMBDA m :
    Bind(AkMusicRanSeqPlaylistItem_read_vec(m.r, nc.v, <<>>), LAMBDA pl :
    Ok(pl.r, [head |-> h.v, num_children |-> nc.v, mid |-> m.v,
              play_list |-> pl.v])))))

AkMusicRanSeqPlaylistItem_read_vec(r, n, acc) ==
    IF n = 0 THEN Ok(r, acc)
    ELSE Bind(AkMusicRanSeqPlaylistItem_read(r), LAMBDA x :
         AkMusicRanSeqPlaylistItem_read_vec(x.r, n - 1, Append(acc, x.v)))

RECURSIVE AkMusicRanSeqPlaylistItem_write(_)
AkMusicRanSeqPlaylistItem_write(v) ==
    v.head \o u32_to_le(v.num_children) \o v.mid
    \o Flatten([i \in 1..Len(v.play_list) |->
                   AkMusicRanSeqPlaylistItem_write(v.play_list[i])])

RECURSIVE SumSeq(_)
SumSeq(s) == IF Len(s) = 0 THEN 0 ELSE Head(s) + SumSeq(Tail(s))

RECURSIVE get_num_recursive(_)
get_num_recursive(play_list_item) ==
    1 + SumSeq([i \in 1..Len(play_list_item.play_list) |->
                   get_num_recursive(play_list_item.play_list[i])])

\* The loop of read_options: the count of the subtree just read is compared
\* with the declared total.
RECURSIVE PlayListItems_read_loop(_, _, _)
PlayListItems_read_loop(r, num_play_list_items, play_list_items) ==
    Bind(AkMusicRanSeqPlaylistItem_read(r), LAMBDA play_list_item :
    With(get_num_recursive(play_list_item.v), LAMBDA num :
    IF num < num_play_list_items
    THEN PlayListItems_read_loop(play_list_item.r, num_play_list_items,
                                 Append(play_list_items, play_list_item.v))
    ELSE IF num = num_play_list_items
    THEN Ok(play_list_item.r, Append(play_list_items, play_list_item.v))
    ELSE Fail(play_list_item.r, ErrBinrw("AssertFail"))))

MusicRanSecCntrInitialValues_read_options(r) ==
    Bind(MusicTransNodeParams_read(r), LAMBDA music_trans_node_params :
    Bind(br_uint(music_trans_node_params.r, 4), LAMBDA num_play_list_items :
    Bind(PlayListItems_read_loop(num_play_list_items.r, num_play_list_items.v, <<>>),
         LAMBDA play_list_items :
    Ok(play_list_items.r,
       [music_trans_node_params |-> music_trans_node_params.v,
        num_play_list_items |-> num_play_list_items.v,
        play_list_items |-> play_list_items.v]))))

MusicRanSecCntrInitialValues_write_options(v) ==
    MusicTransNodeParams_write(v.music_trans_node_params)
    \o u32_to_le(v.num_play_list_items)
    \o bw_vec(v.play_list_items, AkMusicRanSeqPlaylistItem_write)

HircMusicRanSecCntr_from_reader(r, length, build) ==
    CheckReadSize("MusicRanSecCntrInitialValues",
                  MusicRanSecCntrInitialValues_read_options(r), r.pos, length, build)

HircMusicRanSecCntr_write_to(v) == MusicRanSecCntrInitialValues_write_options(v)

HircMusicRanSecCntr_fix_values_stale(v) == v

HircMusicRanSecCntr_fix_values(v) ==
    [v EXCEPT !.num_play_list_items =
        SumSeq([i \in 1..Len(v.play_list_items) |->
                   get_num_recursive(v.play_list_items[i])])]

(***************************************************************************)
(* hirc.rs: the kind tag.  strum::FromRepr maps the discriminant of every  *)
(* variant to that variant; a variant with a field is built with the       *)
(* Default value of the field, and the discriminant of Unknown(u8) is the  *)
(* one after AuxiliaryBus = 20.                                            *)
(***************************************************************************)
T_Settings == 1
T_Sound == 2
T_EventAction == 3
T_Event == 4
T_MusicSegment == 10
T_MusicTrack == 11
T_MusicRanSeqCntr == 13
T_Effect == 18
T_AuxiliaryBus == 20
T_UnknownDiscriminant == 21

Unknown(x) == [variant |-> "Unknown", x |-> x]
Named(d) == [variant |-> "Named", x |-> d]

NamedEntryTypes == (T_Settings..T_Effect) \cup {T_AuxiliaryBus}

HircEntryType_from_repr(b) ==
    IF b \in NamedEntryTypes THEN Some(Named(b))
    ELSE IF b = T_UnknownDiscriminant THEN Some(Unknown(0))
    ELSE None

HircEntryType_as_u8(t) == t.x

(***************************************************************************)
(* hirc.rs: payloads.                                                      *)
(***************************************************************************)
SoundHeadSize == 17
SoundMidSize == 9
SoundFixedSize == 31
EventActionFixedSize == 13
HircSoundType_Max == 1
Scope_Min == 1
Scope_Max == 6
ActionType_Min == 1
ActionType_Max == 25
ActionType_UnknownDiscriminant == 26
ParamType_Min == 14
ParamType_Max == 16
ParamType_UnknownDiscriminant == 17

\* vec![0; data_length as usize - 4]: with data_length < 4 the subtraction
\* panics (debug) or wraps to a size above isize::MAX and the allocation
\* panics (release).
HircUnmanagedEntry_from_reader(r, data_length) ==
    IF data_length < IdSize THEN Fail(r, ErrPanic)
    ELSE Bind(read_exact(r, data_length - IdSize), LAMBDA x : Ok(x.r, [data |-> x.v]))

HircUnmanagedEntry_write_to(v) == v.data

\* #[binrw] HircSound with #[br(count = data_length - 31)] (u32 arithmetic):
\* a wrapped count is above every stream length and the read hits the end.
HircSound_read_args(r, data_length, build) ==
    Bind(br_bytes(r, SoundHeadSize), LAMBDA h :
    Bind(br_uint(h.r, 1), LAMBDA st :
    IF st.v > HircSoundType_Max THEN Fail(h.r, ErrBinrw("NoVariantMatch")) ELSE
    Bind(br_bytes(st.r, SoundMidSize), LAMBDA m :
    IF data_length < SoundFixedSize /\ build = "debug" THEN Fail(m.r, ErrPanic) ELSE
    Bind(IF data_length < SoundFixedSize THEN Fail(m.r, BinrwEof)
         ELSE br_bytes(m.r, data_length - SoundFixedSize), LAMBDA d :
    Ok(d.r, [head |-> h.v, sound_type |-> st.v, mid |-> m.v, data |-> d.v])))))

HircSound_write(v) == v.head \o <<v.sound_type>> \o v.mid \o v.data

HircEventActionScope_from_repr_open(b) == Some(b)

HircEventActionScope_from_repr(b) ==
    IF b >= Scope_Min /\ b <= Scope_Max THEN Some(b) ELSE None

HircEventActionType_from_repr(b) ==
    IF b >= ActionType_Min /\ b <= ActionType_Max THEN Some(Named(b))
    ELSE IF b = ActionType_UnknownDiscriminant THEN Some(Unknown(0))
    ELSE None

HircEventActionParameterType_from_repr(b) ==
    IF b >= ParamType_Min /\ b <= ParamType_Max THEN Some(Named(b))
    ELSE IF b = ParamType_UnknownDiscriminant THEN Some(Unknown(0))
    ELSE None

read_vec_u8(r, vec_size) ==
    IF vec_size = 0 THEN Ok(r, <<>>) ELSE read_exact(r, vec_size)

EventAction_data_size_fixed(length, parameter_count) == length - EventActionFixedSize

\* (length as usize) - 13 - (size_of::<u8>() * (parameter_count as usize) * 2):
\* a difference below zero panics, as an overflow or as the capacity overflow
\* of the vector of the wrapped size.
EventAction_data_size(length, parameter_count) ==
    length - EventActionFixedSize - 1 * parameter_count * 2

EventAction_from_reader(r, length) ==
    Bind(read_u8(r), LAMBDA scope :
    IF ~HircEventActionScope_from_repr(scope.v).some
    THEN Fail(scope.r, [kind |-> "UnknownEventActionScope", pos |-> scope.r.pos,
                        v |-> scope.v])
    ELSE
    Bind(read_u8(scope.r), LAMBDA action_type :
    Bind(read_u32(action_type.r), LAMBDA game_object_id :
    Bind(read_u8(game_object_id.r), LAMBDA unk1 :
    Bind(read_u8(unk1.r), LAMBDA parameter_count :
    Bind(read_exact(parameter_count.r, parameter_count.v), LAMBDA parameter_types :
    Bind(read_vec_u8(parameter_types.r, parameter_count.v), LAMBDA parameters :
    Bind(read_u8(parameters.r), LAMBDA unk2 :
    IF EventAction_data_size(length, parameter_count.v) < 0
    THEN Fail(unk2.r, ErrPanic) ELSE
    Bind(read_vec_u8(unk2.r, EventAction_data_size(length, parameter_count.v)),
         LAMBDA data :
    Ok(data.r,
       [scope |-> scope.v,
        action_type |-> unwrap_or(HircEventActionType_from_repr(action_type.v),
                                  Unknown(action_type.v)),
        game_object_id |-> game_object_id.v,
        unk1 |-> unk1.v,
        parameter_count |-> parameter_count.v,
        parameter_types |->
            [i \in 1..parameter_count.v |->
                unwrap_or(HircEventActionParameterType_from_repr(parameter_types.v[i]),
                          Unknown(parameter_types.v[i]))],
        parameters |-> parameters.v,
        unk2 |-> unk2.v,
        data |-> data.v]))))))))))

EventAction_write(v) ==
    <<v.scope, v.action_type.x>> \o u32_to_le(v.game_object_id)
    \o <<v.unk1, v.parameter_count>>
    \o [i \in 1..Len(v.parameter_types) |-> v.parameter_types[i].x]
    \o v.parameters \o <<v.unk2>> \o v.data

Event_from_reader(r) ==
    Bind(read_u8(r), LAMBDA action_count :
    Bind(read_exact(action_count.r, 4 * action_count.v), LAMBDA ids :
    Ok(ids.r, [action_ids |->
                  [i \in 1..action_count.v |->
                      u32_from_le(SubSeq(ids.v, 4 * i - 3, 4 * i))]])))

Event_write(v) ==
    <<Len(v.action_ids) % 256>>
    \o Flatten([i \in 1..Len(v.action_ids) |-> u32_to_le(v.action_ids[i])])

(***************************************************************************)
(* hirc.rs: HircEntry.  The payload variant follows the entry type; every  *)
(* type without a structured decoder is a HircUnmanagedEntry.              *)
(***************************************************************************)
PayloadKind(entry_type) ==
    IF entry_type.variant = "Unknown" THEN "Unmanaged"
    ELSE IF entry_type.x = T_Sound THEN "Sound"
    ELSE IF entry_type.x = T_EventAction THEN "EventAction"
    ELSE IF entry_type.x = T_Event THEN "Event"
    ELSE IF entry_type.x = T_MusicSegment THEN "MusicSegment"
    ELSE IF entry_type.x = T_MusicTrack THEN "MusicTrack"
    ELSE IF entry_type.x = T_MusicRanSeqCntr THEN "MusicRanSeqCntr"
    ELSE "Unmanaged"

HircEntryPayload_from_reader(r, kind, length, build) ==
    CASE kind = "Sound" -> HircSound_read_args(r, length, build)
      [] kind = "EventAction" -> EventAction_from_reader(r, length)
      [] kind = "Event" -> Event_from_reader(r)
      [] kind = "MusicSegment" -> HircMusicSegment_from_reader(r, length, build)
      [] kind = "MusicTrack" -> HircMusicTrack_from_reader(r, length, build)
      [] kind = "MusicRanSeqCntr" -> HircMusicRanSecCntr_from_reader(r, length, build)
      [] OTHER -> HircUnmanagedEntry_from_reader(r, length)

HircEntry_from_reader(r, entry_type, build) ==
    Bind(read_u32(r), LAMBDA length :
    Bind(read_u32(length.r), LAMBDA id :
    Bind(HircEntryPayload_from_reader(id.r, PayloadKind(entry_type), length.v, build),
         LAMBDA payload :
    Ok(payload.r, [entry_type |-> entry_type, length |-> length.v, id |-> id.v,
                   kind |-> PayloadKind(entry_type), payload |-> payload.v]))))

\* HircEntryPayload::fix_values: only MusicRanSeqCntr overrides the default.
HircEntryPayload_fix_values(kind, payload) ==
    IF kind = "MusicRanSeqCntr" THEN HircMusicRanSecCntr_fix_values(payload)
    ELSE payload

HircEntryPayload_write(kind, payload) ==
    CASE kind = "Sound" -> HircSound_write(payload)
      [] kind = "EventAction" -> EventAction_write(payload)
      [] kind = "Event" -> Event_write(payload)
      [] kind = "MusicSegment" -> HircMusicSegment_write_to(payload)
      [] kind = "MusicTrack" -> HircMusicTrack_write_to(payload)
      [] kind = "MusicRanSeqCntr" -> HircMusicRanSecCntr_write_to(payload)
      [] OTHER -> HircUnmanagedEntry_write_to(payload)

\* Returns the writer after the call and the entry as write_to leaves it.
\* start_pos is the position after the length placeholder (afterLen.pos),
\* end_pos the position after the payload (afterPayload.pos).
HircEntry_write_to(w, e) ==
    With(write_u32(write_u8(w, HircEntryType_as_u8(e.entry_type)), 0),
         LAMBDA afterLen :
    With(HircEntryPayload_fix_values(e.kind, e.payload), LAMBDA fixed :
    With(write_all(write_u32(afterLen, e.id), HircEntryPayload_write(e.kind, fixed)),
         LAMBDA afterPayload :
    WOk(wseek(write_u32(wseek(afterPayload, afterLen.pos - 4),
                        afterPayload.pos - afterLen.pos),
              afterPayload.pos),
        [e EXCEPT !.payload = fixed]))))

(***************************************************************************)
(* mod.rs: sections.                                                       *)
(***************************************************************************)
\* transmute::<[u8; 12], DidxEntry> on the little-endian host.
DidxEntry_from_bytes(b) ==
    [id |-> u32_from_le(SubSeq(b, 1, 4)), offset |-> u32_from_le(SubSeq(b, 5, 8)),
     length |-> u32_from_le(SubSeq(b, 9, 12))]

DidxEntry_to_bytes(e) == u32_to_le(e.id) \o u32_to_le(e.offset) \o u32_to_le(e.length)

RECURSIVE Didx_read_entries(_, _, _)
Didx_read_entries(r, n, entries) ==
    IF n = 0 THEN Ok(r, entries)
    ELSE Bind(read_exact(r, DidxEntrySize), LAMBDA buf :
         Didx_read_entries(buf.r, n - 1, Append(entries, DidxEntry_from_bytes(buf.v))))

RECURSIVE Hirc_read_entries(_, _, _, _)
Hirc_read_entries(r, n, entries, build) ==
    IF n = 0 THEN Ok(r, entries)
    ELSE Bind(read_u8(r), LAMBDA entry_type :
         Bind(HircEntry_from_reader(
                  entry_type.r,
                  unwrap_or(HircEntryType_from_repr(entry_type.v), Unknown(entry_type.v)),
                  build), LAMBDA hirc_entry :
         Hirc_read_entries(hirc_entry.r, n - 1, Append(entries, hirc_entry.v), build)))

\* The match on the magic in Section::from_reader.  vec![0; section_length - 8]
\* with section_length < 8 panics (overflow check, or capacity overflow).
SectionPayload_from_reader(r, magic, section_length, build) ==
    CASE magic = MAGIC_BKHD ->
           Bind(read_u32(r), LAMBDA version :
           Bind(read_u32(version.r), LAMBDA id :
           IF section_length < BkhdFixedSize THEN Fail(id.r, ErrPanic) ELSE
           Bind(read_exact(id.r, section_length - BkhdFixedSize), LAMBDA unknown :
           Ok(unknown.r, [type |-> "Bkhd", version |-> version.v, id |-> id.v,
                          unknown |-> unknown.v]))))
      [] magic = MAGIC_DIDX ->
           Bind(Didx_read_entries(r, section_length \div DidxEntrySize, <<>>),
                LAMBDA entries : Ok(entries.r, [type |-> "Didx", entries |-> entries.v]))
      [] magic = MAGIC_HIRC ->
           Bind(read_u32(r), LAMBDA count :
           Bind(Hirc_read_entries(count.r, count.v, <<>>, build), LAMBDA entries :
           Ok(entries.r, [type |-> "Hirc", entries |-> entries.v])))
      [] OTHER ->
           Bind(read_exact(r, section_length), LAMBDA data :
           Ok(data.r, [type |-> "Unk", data |-> data.v]))

Section_from_reader(r, magic, build) ==
    Bind(read_u32(r), LAMBDA section_length :
    Bind(SectionPayload_from_reader(section_length.r, magic, section_length.v, build),
         LAMBDA payload :
    Ok(payload.r, [magic |-> magic, section_length |-> section_length.v,
                   payload |-> payload.v])))

IsDidx(sec) == sec.payload.type = "Didx"
IsData(sec) == sec.payload.type = "Data"

DidxIndices(sections) == {i \in 1..Len(sections) : IsDidx(sections[i])}
DataIndices(sections) == {i \in 1..Len(sections) : IsData(sections[i])}

MinOf(S) == CHOOSE x \in S : \A y \in S : x <= y
MaxOf(S) == CHOOSE x \in S : \A y \in S : x >= y

RECURSIVE Data_read_blobs(_, _, _, _)
Data_read_blobs(r, data_start_pos, didx_entries, data_list) ==
    IF Len(didx_entries) = 0 THEN Ok(r, data_list)
    ELSE Bind(read_exact(seek(r, data_start_pos + Head(didx_entries).offset),
                         Head(didx_entries).length), LAMBDA data :
         Data_read_blobs(data.r, data_start_pos, Tail(didx_entries),
                         Append(data_list, data.v)))

\* find_map over the sections decoded so far returns the first Didx.
FindDidx_skipcheck(sections) ==
    IF DidxIndices(sections) = {} THEN Some(<<>>)
    ELSE Some(sections[MinOf(DidxIndices(sections))].payload.entries)

FindDidx(sections) ==
    IF DidxIndices(sections) = {} THEN None
    ELSE Some(sections[MinOf(DidxIndices(sections))].payload.entries)

Data_resume_pos_afterblobs(data_start_pos, total_length, after_blobs) == after_blobs.pos

Data_resume_pos_rewind(data_start_pos, total_length, after_blobs) ==
    data_start_pos - 8 + total_length

\* The position the reader is put at after the blobs of a DATA section.
Data_resume_pos(data_start_pos, total_length, after_blobs) ==
    data_start_pos + total_length

\* The DATA arm of the loop of Bnk::from_reader.
Data_from_reader(r, magic, sections) ==
    Bind(read_u32(r), LAMBDA total_length :
    With(FindDidx(sections), LAMBDA didx_entries :
    IF ~didx_entries.some THEN Fail(total_length.r, ErrMissingDidx) ELSE
    Bind(Data_read_blobs(total_length.r, total_length.r.pos, didx_entries.x, <<>>),
         LAMBDA data_list :
    Ok(seek(data_list.r,
            Data_resume_pos(total_length.r.pos, total_length.v, data_list.r)),
       [magic |-> magic, section_length |-> total_length.v,
        payload |-> [type |-> "Data", data_list |-> data_list.v]]))))

\* What the loop of Bnk::from_reader does with an error of the read of the
\* magic: UnexpectedEof ends the loop, every other error is dropped and the
\* turn goes on with the buffer as the read left it ([0u8; 4]).
MagicRead(magic) ==
    IF magic.ok THEN Ok(magic.r, magic.v)
    ELSE IF magic.e = ErrIO THEN Fail(magic.r, [kind |-> "break"])
    ELSE Ok(magic.r, Zeros(4))

\* The loop of Bnk::from_reader: a magic that cannot be read in full ends it.
RECURSIVE Bnk_from_reader_loop(_, _, _)
Bnk_from_reader_loop(r, sections, build) ==
    With(MagicRead(read_exact(r, 4)), LAMBDA magic :
    IF ~magic.ok /\ magic.e.kind = "break" THEN Ok(magic.r, sections) ELSE
    Bind(magic, LAMBDA m :
    Bind(IF m.v = MAGIC_DATA THEN Data_from_reader(m.r, m.v, sections)
         ELSE Section_from_reader(m.r, m.v, build), LAMBDA section :
    Bnk_from_reader_loop(section.r, Append(sections, section.v), build))))

Bnk_from_reader(r, build) == Bnk_from_reader_loop(r, <<>>, build)

(***************************************************************************)
(* mod.rs: fix_values and write_to.                                        *)
(***************************************************************************)
RECURSIVE PrefixSum(_, _)
PrefixSum(lens, i) == IF i = 0 THEN 0 ELSE lens[i] + PrefixSum(lens, i - 1)

BlobLengths(data_list) == [i \in 1..Len(data_list) |-> Len(data_list[i])]

FixEntries_accum(didx_entries, data_list) ==
    [i \in 1..Len(didx_entries) |->
        [didx_entries[i] EXCEPT !.length = Len(data_list[i]),
                                !.offset = @ + PrefixSum(BlobLengths(data_list), i - 1)]]

FixEntries_keepoffset(didx_entries, data_list) ==
    [i \in 1..Len(didx_entries) |->
        [didx_entries[i] EXCEPT !.length = Len(data_list[i])]]

\* The zip loop of fix_values.
FixEntries(didx_entries, data_list) ==
    [i \in 1..Len(didx_entries) |->
        [didx_entries[i] EXCEPT !.length = Len(data_list[i]),
                                !.offset = PrefixSum(BlobLengths(data_list), i - 1)]]

CountsDiffer_lenient(didx_entries, data_list) == Len(didx_entries) > Len(data_list)

CountsDiffer(didx_entries, data_list) == Len(didx_entries) # Len(data_list)

\* The loop keeps the last Didx and the last Data section of the bank.
Bnk_fix_values(sections) ==
    IF DidxIndices(sections) = {} \/ DataIndices(sections) = {}
    THEN [ok |-> TRUE, e |-> NoErr, bnk |-> sections] ELSE
    LET di == MaxOf(DidxIndices(sections))
        da == MaxOf(DataIndices(sections))
        didx_entries == sections[di].payload.entries
        data_list == sections[da].payload.data_list
    IN
    IF CountsDiffer(didx_entries, data_list)
    THEN [ok |-> FALSE,
          e |-> ErrBadDataSize("DIDX entries", Exact(Len(data_list)), Len(didx_entries), 0),
          bnk |-> sections]
    ELSE [ok |-> TRUE, e |-> NoErr,
          bnk |-> [sections EXCEPT ![di].payload.entries =
                                       FixEntries(didx_entries, data_list)]]

RECURSIVE Hirc_write_entries(_, _, _)
Hirc_write_entries(w, entries, i) ==
    IF i > Len(entries) THEN WOk(w, entries)
    ELSE With(HircEntry_write_to(w, entries[i]), LAMBDA x :
         Hirc_write_entries(x.w, [entries EXCEPT ![i] = x.v], i + 1))

\* didx_entries[i] is an indexing of the slice: out of bounds it panics.
RECURSIVE Data_write_blobs(_, _, _, _, _)
Data_write_blobs(w, data_start_pos, didx_entries, data_list, i) ==
    IF i > Len(data_list) THEN WOk(w, <<>>)
    ELSE IF i > Len(didx_entries) THEN WFail(w, <<>>, ErrPanic)
    ELSE Data_write_blobs(
             write_all(wseek(w, data_start_pos + didx_entries[i].offset), data_list[i]),
             data_start_pos, didx_entries, data_list, i + 1)

\* One iteration of the loop of write_to: the payload p of a section.
Section_write_payload(w, p, didx_entries) ==
    CASE p.type = "Bkhd" ->
           WOk(write_all(write_u32(write_u32(w, p.version), p.id), p.unknown), p)
      [] p.type = "Didx" ->
           WOk(write_all(w, Flatten([i \in 1..Len(p.entries) |->
                                        DidxEntry_to_bytes(p.entries[i])])), p)
      [] p.type = "Hirc" ->
           With(Hirc_write_entries(write_u32(w, Len(p.entries)), p.entries, 1),
                LAMBDA x : WOk(x.w, [p EXCEPT !.entries = x.v]))
      [] p.type = "Data" ->
           IF ~didx_entries.some THEN WFail(w, p, ErrMissingDidx)
           ELSE With(Data_write_blobs(w, w.pos, didx_entries.x, p.data_list, 1),
                     LAMBDA x : IF x.ok THEN WOk(x.w, p) ELSE WFail(x.w, p, x.e))
      [] OTHER -> WOk(write_all(w, p.data), p)

\* The loop of write_to.  start_pos is the position after the length
\* placeholder (afterLen.pos), end_pos the position after the payload.
RECURSIVE Bnk_write_loop(_, _, _, _)
Bnk_write_loop(w, sections, i, didx_entries) ==
    IF i > Len(sections) THEN [ok |-> TRUE, e |-> NoErr, w |-> w, bnk |-> sections] ELSE
    With(write_u32(write_all(w, sections[i].magic), 0), LAMBDA afterLen :
    With(IF IsDidx(sections[i]) THEN Some(sections[i].payload.entries)
         ELSE didx_entries, LAMBDA didx1 :
    With(Section_write_payload(afterLen, sections[i].payload, didx1), LAMBDA x :
    IF ~x.ok
    THEN [ok |-> FALSE, e |-> x.e, w |-> x.w,
          bnk |-> [sections EXCEPT ![i].payload = x.v]]
    ELSE Bnk_write_loop(
             wseek(write_u32(wseek(x.w, afterLen.pos - 4), x.w.pos - afterLen.pos),
                   x.w.pos),
             [sections EXCEPT ![i].payload = x.v], i + 1, didx1))))

Bnk_write_to(w, sections) ==
    With(Bnk_fix_values(sections), LAMBDA f :
    IF ~f.ok THEN [ok |-> FALSE, e |-> f.e, w |-> w, bnk |-> f.bnk]
    ELSE Bnk_write_loop(w, f.bnk, 1, None))

(***************************************************************************)
(* Input streams of the bank-level specification.                          *)
(***************************************************************************)
Sec(magic, payload) == magic \o u32_to_le(Len(payload)) \o payload
SecLen(magic, len, payload) == magic \o u32_to_le(len) \o payload

MAGIC_UNK == <<65, 66, 67, 68>>

Bkhd0 == Sec(MAGIC_BKHD, u32_to_le(145) \o u32_to_le(7))
Bkhd2 == Sec(MAGIC_BKHD, u32_to_le(145) \o u32_to_le(7) \o <<1, 2>>)
BkhdShort == SecLen(MAGIC_BKHD, 4, u32_to_le(145) \o u32_to_le(7))
UnkSec == Sec(MAGIC_UNK, <<9, 8, 7>>)

\* A DIDX/DATA pair: the blob lengths, how the blobs are laid out in the DATA
\* section and the slack after the last blob.
BlobLens == UNION {[1..n -> 0..MaxBlobLen] : n \in 0..2}
Layouts == {"packed", "gap", "reversed"}

BlobOffset(lens, layout, i) ==
    CASE layout = "packed" -> PrefixSum(lens, i - 1)
      [] layout = "gap" -> PrefixSum(lens, i - 1) + (i - 1)
      [] OTHER -> PrefixSum(lens, Len(lens)) - PrefixSum(lens, i)

BlobByte(i, j) == 16 * i + j

DidxOf(lens, layout) ==
    Sec(MAGIC_DIDX, Flatten([i \in 1..Len(lens) |->
        DidxEntry_to_bytes([id |-> 100 + i, offset |-> BlobOffset(lens, layout, i),
                            length |-> lens[i]])]))

\* The blobs that cover position p of the DATA payload.
BlobsAt(lens, layout, p) ==
    {i \in 1..Len(lens) : BlobOffset(lens, layout, i) < p
                          /\ p <= BlobOffset(lens, layout, i) + lens[i]}

DataExtent(lens, layout) ==
    IF Len(lens) = 0 THEN 0
    ELSE MaxOf({BlobOffset(lens, layout, i) + lens[i] : i \in 1..Len(lens)})

DataOf(lens, layout, slack) ==
    Sec(MAGIC_DATA,
        [p \in 1..(DataExtent(lens, layout) + slack) |->
            IF BlobsAt(lens, layout, p) = {} THEN 110
            ELSE BlobByte(MinOf(BlobsAt(lens, layout, p)),
                          p - BlobOffset(lens, layout, MinOf(BlobsAt(lens, layout, p))))])

\* A DATA section whose slack after the only blob holds the bytes of an empty
\* section.
DataWithSectionInSlack ==
    Sec(MAGIC_DATA, <<BlobByte(1, 1)>> \o Sec(<<83, 76, 65, 75>>, <<>>))

\* A DIDX section of one entry and a HIRC section of one entry whose declared
\* length also covers the bytes of an empty section that follow the entries.
SlackSection == Sec(<<83, 76, 65, 75>>, <<>>)

DidxWithSectionInSlack ==
    SecLen(MAGIC_DIDX, DidxEntrySize + Len(SlackSection),
           DidxEntry_to_bytes([id |-> 101, offset |-> 0, length |-> 0]) \o SlackSection)

\* HIRC sections made of opaque and Event entries.
OpaqueEntry(t, id, data) == <<t>> \o u32_to_le(IdSize + Len(data)) \o u32_to_le(id) \o data
EventEntry(id, ids) ==
    <<T_Event>> \o u32_to_le(IdSize + 1 + 4 * Len(ids)) \o u32_to_le(id) \o <<Len(ids)>>
    \o Flatten([i \in 1..Len(ids) |-> u32_to_le(ids[i])])
HircOf(es) == Sec(MAGIC_HIRC, u32_to_le(Len(es)) \o Flatten(es))

HircWithSectionInSlack ==
    Sec(MAGIC_HIRC, u32_to_le(1) \o OpaqueEntry(T_Settings, 11, <<5, 6>>) \o SlackSection)

HircSections ==
    {HircOf(<<OpaqueEntry(T_Settings, 11, <<5, 6>>)>>),
     HircOf(<<OpaqueEntry(T_UnknownDiscriminant, 12, <<5>>)>>),
     HircOf(<<OpaqueEntry(19, 13, <<>>), EventEntry(14, <<77>>)>>),
     HircOf(<<<<T_Settings>> \o u32_to_le(3) \o u32_to_le(15)>>)}

PairStreams ==
    {<<DidxOf(lens, layout), DataOf(lens, layout, slack)>> :
        lens \in BlobLens, layout \in Layouts, slack \in 0..1}

SectionStreams ==
    {<<Bkhd0>>, <<Bkhd2>>, <<BkhdShort>>, <<UnkSec>>, <<Bkhd0, UnkSec>>}
    \cup {<<Bkhd0>> \o ps : ps \in PairStreams}
    \cup PairStreams
    \cup {<<ps[2]>> : ps \in PairStreams}
    \cup {<<Bkhd0, ps[2], ps[1]>> : ps \in PairStreams}
    \cup {<<DidxOf(<<1>>, "packed"), DidxOf(<<2, 1>>, "packed"),
            DataOf(<<2, 1>>, "packed", 0)>>,
          <<DidxOf(<<2, 1>>, "packed"), DidxOf(<<1>>, "packed"),
            DataOf(<<2, 1>>, "packed", 0)>>}
    \cup {<<DidxOf(<<2, 1>>, "reversed"), DataOf(<<2, 1>>, "reversed", 0),
            DidxOf(<<2, 1>>, "packed")>>,
          <<DidxOf(<<1>>, "packed"), DataOf(<<1>>, "packed", 0),
            DidxOf(<<2, 1>>, "packed")>>}
    \cup {ps \o <<UnkSec>> : ps \in PairStreams}
    \cup {<<DidxOf(<<1>>, "packed"), DataWithSectionInSlack, UnkSec>>}
    \cup {<<DidxWithSectionInSlack, UnkSec>>, <<Bkhd0, HircWithSectionInSlack, UnkSec>>}
    \cup {<<DidxOf(<<2>>, "packed"), DataOf(<<1>>, "packed", 0), UnkSec>>}
    \cup {<<Bkhd0, h>> : h \in HircSections}

Prefixes(s, from, to) == {SubSeq(s, 1, n) : n \in from..to}

TruncatedStreams ==
    Prefixes(Bkhd0 \o DidxOf(<<1>>, "packed") \o DataOf(<<1>>, "packed", 0), 0,
             Len(Bkhd0 \o DidxOf(<<1>>, "packed") \o DataOf(<<1>>, "packed", 0)) - 1)
    \cup Prefixes(Bkhd0 \o DataOf(<<1>>, "packed", 0), Len(Bkhd0) + 1,
                  Len(Bkhd0 \o DataOf(<<1>>, "packed", 0)))

BankInputs == {Flatten(ss) : ss \in SectionStreams} \cup TruncatedStreams

(***************************************************************************)
(* The bank-level specification: decode a stream, let the consumer change  *)
(* the decoded bank, encode it (each time into a fresh empty sink).        *)
(***************************************************************************)
Unused == <<>>

NoLoop == <<>>
NoWem == <<>>

NoFault == [at |-> 0, left |-> 0]

Init ==
    /\ input \in BankInputs
    /\ pc = "start"
    /\ fault = NoFault
    /\ loop = NoLoop
    /\ wem = NoWem /\ hist = NoWem
    /\ bnk = <<>>
    /\ err = NoErr
    /\ sink = <<>>
    /\ preBnk = <<>>
    /\ prevBnk = <<>>
    /\ prevSink = <<>>
    /\ nwrites = 0
    /\ nmut = 0
    /\ consumed = 0
    /\ entry = Unused /\ preEntry = Unused /\ pp = Unused /\ reread = Unused

Outcome(res) ==
    IF res.ok THEN "decoded" ELSE IF res.e.kind = "panic" THEN "panicked" ELSE "failed"

FromReader ==
    /\ pc = "start"
    /\ \E build \in Builds :
          With(Bnk_from_reader(Reader(input), build), LAMBDA res :
          /\ pc' = Outcome(res)
          /\ bnk' = (IF res.ok THEN res.v ELSE <<>>)
          /\ err' = res.e
          /\ consumed' = res.r.pos)
    /\ UNCHANGED <<wem, hist, loop, fault, input, sink, preBnk, prevBnk, prevSink, nwrites, nmut,
                   entry, preEntry, pp, reread>>

HasBank == pc \in {"decoded", "written", "writefailed"}

Mutated(newBnk) ==
    /\ HasBank
    /\ nmut < MaxMutations
    /\ newBnk # bnk
    /\ bnk' = newBnk
    /\ pc' = "decoded"
    /\ nmut' = nmut + 1
    /\ nwrites' = 0
    /\ UNCHANGED <<wem, hist, loop, fault, input, err, sink, preBnk, prevBnk, prevSink, entry, preEntry, pp,
                   consumed, reread>>

\* The consumer replaces blob i of a Data section (data_list is a pub field).
SetBlob ==
    \E s \in DataIndices(bnk) : \E i \in 1..Len(bnk[s].payload.data_list) :
    \E n \in 0..MaxBlobLen :
        Mutated([bnk EXCEPT ![s].payload.data_list[i] = [j \in 1..n |-> 96 + j]])

\* The consumer appends a blob to, or removes the last blob of, a Data section.
PushBlob ==
    \E s \in DataIndices(bnk) :
        Mutated([bnk EXCEPT ![s].payload.data_list = Append(@, <<97>>)])

PopBlob ==
    \E s \in DataIndices(bnk) :
        /\ Len(bnk[s].payload.data_list) > 0
        /\ Mutated([bnk EXCEPT ![s].payload.data_list = SubSeq(@, 1, Len(@) - 1)])

\* The consumer writes offset and length of an index entry (pub fields).
SetDidxEntry ==
    \E s \in DidxIndices(bnk) : \E i \in 1..Len(bnk[s].payload.entries) :
    \E off \in {0, 3}, len \in {0, 5} :
        Mutated([bnk EXCEPT ![s].payload.entries[i].offset = off,
                            ![s].payload.entries[i].length = len])

WriteTo ==
    /\ HasBank
    /\ nwrites < MaxWrites
    /\ With(Bnk_write_to(Writer, bnk), LAMBDA res :
       /\ pc' = (IF res.ok THEN "written"
                 ELSE IF res.e.kind = "panic" THEN "panicked" ELSE "writefailed")
       /\ bnk' = res.bnk
       /\ err' = res.e
       /\ sink' = res.w.buf)
    /\ preBnk' = bnk
    /\ prevBnk' = (IF nwrites > 0 THEN bnk ELSE <<>>)
    /\ prevSink' = (IF nwrites > 0 THEN sink ELSE <<>>)
    /\ nwrites' = nwrites + 1
    /\ UNCHANGED <<wem, hist, loop, fault, input, nmut, entry, preEntry, pp, consumed, reread>>

Next == FromReader \/ SetBlob \/ PushBlob \/ PopBlob \/ SetDidxEntry \/ WriteTo

Spec == Init /\ [][Next]_vars

(***************************************************************************)
(* Input streams of the entry-level specification: one HIRC entry, from    *)
(* its kind tag on (tag u8, declared length u32, id u32, payload).         *)
(***************************************************************************)
Ramp(n, base) == [i \in 1..n |-> base + i]

Entry(t, declared, id, payload) ==
    <<t>> \o u32_to_le(declared) \o u32_to_le(id) \o payload

\* NodeBaseParams with every count zero, and with one element in every vector,
\* the aux ids present and a path automation.
NodeBasePlain ==
    Ramp(NodeBaseHeadSize, 0) \o <<0>> \o <<0>> \o <<0>> \o <<0>> \o Ramp(4, 0)
    \o Ramp(AdvSettingsParamsSize, 0) \o <<0>> \o <<0>> \o <<0, 0>>

NodeBaseRich ==
    Ramp(NodeBaseHeadSize, 0)
    \o <<1>> \o Ramp(AkPropBundleElemSize, 10) \o <<0>>
    \o <<35, 9, 2>> \o Ramp(4, 0)
       \o u32_to_le(1) \o Ramp(AkPathVertexSize, 30)
       \o u32_to_le(1) \o Ramp(AkPathListItemOffsetSize, 50)
       \o Ramp(Ak3DAutomationParamsSize, 60)
    \o <<8>> \o Ramp(16, 70) \o Ramp(4, 0)
    \o Ramp(AdvSettingsParamsSize, 0)
    \o <<1>> \o Ramp(AkStatePropertyInfoSize, 0)
    \o <<1>> \o Ramp(5, 0) \o <<1>> \o Ramp(AkStateSize, 0)
    \o <<1, 0>> \o Ramp(InitialRTPCCurveHeadSize, 0) \o <<1, 0>>
       \o Ramp(AkRTPCGraphPointSize, 0)

NodeBases == {NodeBasePlain, NodeBaseRich}

MusicNodeBytes(nb) ==
    <<3>> \o nb \o u32_to_le(1) \o Ramp(4, 0) \o Ramp(AkMeterInfoSize + 1, 40)
    \o u32_to_le(1) \o Ramp(CAkStingerSize, 0)

MusicSegmentPayload(nb, markers) ==
    MusicNodeBytes(nb) \o Ramp(8, 0) \o u32_to_le(Len(markers))
    \o Flatten([i \in 1..Len(markers) |->
                   Ramp(AkMusicMarkerHeadSize, 0) \o markers[i] \o <<0>>])

MusicTrackPayload(nb, rich, track_type) ==
    <<1>> \o u32_to_le(1) \o Ramp(AkBankSourceDataSize, 0)
    \o (IF rich THEN u32_to_le(1) \o Ramp(AkTrackSrcInfoSize, 0) \o u32_to_le(2)
        ELSE u32_to_le(0))
    \o (IF rich
        THEN u32_to_le(1) \o Ramp(AkClipAutomationHeadSize, 0) \o u32_to_le(1)
             \o Ramp(AkRTPCGraphPointSize, 0)
        ELSE u32_to_le(0))
    \o nb \o <<track_type>>
    \o (IF track_type = AkMusicTrackType_Switch
        THEN Ramp(SwitchParamsHeadSize, 0) \o u32_to_le(1) \o Ramp(4, 0)
             \o Ramp(TransParamsSize, 0)
        ELSE <<>>)
    \o Ramp(4, 0)

\* Playlist forests: a tree is the sequence of its children.
Leaf == <<>>
Forests ==
    {<<Leaf>>, <<<<Leaf>>>>, <<Leaf, <<Leaf>>>>, <<Leaf, Leaf>>,
     <<<<Leaf, Leaf>>>>, <<<<<<Leaf>>>>>>}

RECURSIVE ItemBytes(_)
ItemBytes(tree) ==
    Ramp(PlaylistItemHeadSize, 0) \o u32_to_le(Len(tree)) \o Ramp(PlaylistItemMidSize, 20)
    \o Flatten([i \in 1..Len(tree) |-> ItemBytes(tree[i])])

MusicRanSeqPayload(nb, total, forest) ==
    MusicNodeBytes(nb) \o u32_to_le(1) \o Ramp(AkMusicTransitionRuleSize, 0)
    \o u32_to_le(total) \o Flatten([i \in 1..Len(forest) |-> ItemBytes(forest[i])])

SoundPayload(sound_type, data) ==
    Ramp(SoundHeadSize, 0) \o <<sound_type>> \o Ramp(SoundMidSize, 0) \o data

EventActionPayload(scope, action_type, param_types, data) ==
    <<scope, action_type>> \o Ramp(4, 0) \o <<5, Len(param_types)>> \o param_types
    \o Ramp(Len(param_types), 0) \o <<6>> \o data

EventPayload(n) == <<n>> \o Ramp(4 * n, 0)

StructuredTags ==
    {T_Sound, T_EventAction, T_Event, T_MusicSegment, T_MusicTrack, T_MusicRanSeqCntr}

\* The declared lengths tried for a payload: the right one, one more, one
\* less, and two lengths below the four bytes of the id.
Declared(payload) ==
    {IdSize + Len(payload), IdSize + Len(payload) + 1, IdSize + Len(payload) - 1, 0, 3}

OpaqueInputs ==
    {Entry(t, IdSize + Len(data), 21, data) :
        t \in Byte \ StructuredTags, data \in {<<>>, <<5, 6>>}}
    \cup {Entry(T_Settings, d, 22, <<5, 6>>) : d \in Declared(<<5, 6>>)}

\* Every stream with the declared lengths tried for its payload.
WithDeclared(t, id, payloads) ==
    UNION {{Entry(t, d, id, p) : d \in Declared(p)} : p \in payloads}

MusicInputs ==
    WithDeclared(T_MusicSegment, 23,
        {MusicSegmentPayload(nb, ms) :
            nb \in NodeBases, ms \in {<<>>, <<<<65, 66>>>>}})
    \cup WithDeclared(T_MusicTrack, 24,
        {MusicTrackPayload(NodeBasePlain, rich, tt) :
            rich \in BOOLEAN,
            tt \in {0, AkMusicTrackType_Switch, AkMusicTrackType_Switch + 1}})

MusicRanSeqInputs ==
    WithDeclared(T_MusicRanSeqCntr, 25,
        {MusicRanSeqPayload(NodeBasePlain, total, forest) :
            total \in 0..3, forest \in Forests}
        \cup {MusicRanSeqPayload(NodeBaseRich, 2, <<<<Leaf>>>>)})

OtherInputs ==
    UNION {{Entry(T_Sound, d, 27, p) : d \in {IdSize + Len(p), SoundFixedSize - 1}} :
           p \in {SoundPayload(st, data) :
                     st \in 0..(HircSoundType_Max + 1), data \in {<<>>, <<1, 2>>}}}
    \cup UNION {{Entry(T_EventAction, d, 28, p) : d \in {IdSize + Len(p), 5}} :
           p \in {EventActionPayload(sc, at, pts, <<7>>) :
                     sc \in {Scope_Min, Scope_Max + 1},
                     at \in {ActionType_Min, ActionType_UnknownDiscriminant, 30},
                     pts \in {<<>>, <<ParamType_Min>>, <<ParamType_UnknownDiscriminant>>}}}
    \cup {Entry(T_Event, IdSize + Len(EventPayload(n)), 29, EventPayload(n)) : n \in 0..2}

\* An entry whose declared length is the length of what follows it.
Whole(t, id, payload) == Entry(t, IdSize + Len(payload), id, payload)

\* One entry of each of the five kinds with a byte-accounting rule, and the
\* streams that end one and two bytes before such an entry does.
StructuredSamples ==
    {Whole(T_Sound, 30, SoundPayload(0, <<1, 2>>)),
     Whole(T_EventAction, 31, EventActionPayload(Scope_Min, ActionType_Min,
                                                 <<ParamType_Min>>, <<7, 8>>)),
     Whole(T_MusicSegment, 32, MusicSegmentPayload(NodeBasePlain, <<>>)),
     Whole(T_MusicTrack, 33, MusicTrackPayload(NodeBasePlain, FALSE, 0)),
     Whole(T_MusicRanSeqCntr, 34, MusicRanSeqPayload(NodeBasePlain, 1, <<Leaf>>))}

TruncatedEntries == UNION {Prefixes(e, Len(e) - 2, Len(e) - 1) : e \in StructuredSamples}

\* EventAction entries with every value of the scope byte, of the action type
\* byte and of a parameter type byte, and with 0 to 2 parameters in front of
\* tails of 0, 1 and 3 bytes.
EventActionInputs ==
    {Whole(T_EventAction, 35, EventActionPayload(b, ActionType_Min, <<ParamType_Min>>, <<7>>)) :
        b \in Byte}
    \cup {Whole(T_EventAction, 36, EventActionPayload(Scope_Min, b, <<>>, <<7>>)) :
        b \in Byte}
    \cup {Whole(T_EventAction, 37, EventActionPayload(Scope_Max, ActionType_Max,
                                                      <<ParamType_Max, b>>, <<>>)) :
        b \in Byte}
    \cup {Whole(T_EventAction, 38, EventActionPayload(Scope_Min, ActionType_Min, pts, tail)) :
        pts \in {<<>>, <<ParamType_Min>>, <<ParamType_Min, ParamType_Max>>},
        tail \in {<<>>, <<7>>, <<7, 8, 9>>}}
    \cup {Entry(T_EventAction, 14, 39, <<Scope_Max + 1>>)}

\* Sound entries with every value of the sound type byte.
SoundTypeInputs == {Whole(T_Sound, 40, SoundPayload(b, <<1>>)) : b \in Byte}

\* Event entries in front of two more bytes, with the declared lengths tried.
EventLengthInputs ==
    UNION {{Entry(T_Event, d, 41, EventPayload(n) \o <<0, 0>>) :
               d \in Declared(EventPayload(n))} : n \in 0..1}

HircInputs ==
    OpaqueInputs \cup MusicInputs \cup MusicRanSeqInputs \cup OtherInputs
    \cup Prefixes(Entry(T_Settings, IdSize + 2, 22, <<5, 6>>), 0, 10)
    \cup TruncatedEntries \cup EventActionInputs \cup SoundTypeInputs
    \cup EventLengthInputs

(***************************************************************************)
(* The entry-level specification: one turn of the loop over the entries of *)
(* a HIRC section decodes the entry, the forest of a MusicRanSeqCntr is    *)
(* edited (through the serde representation of the payload), the entry is  *)
(* encoded into a fresh empty sink.                                        *)
(***************************************************************************)
InitHirc ==
    /\ input \in HircInputs
    /\ pc = "start"
    /\ fault = NoFault
    /\ loop = NoLoop
    /\ wem = NoWem /\ hist = NoWem
    /\ entry = <<>>
    /\ preEntry = <<>>
    /\ err = NoErr
    /\ sink = <<>>
    /\ consumed = 0
    /\ nwrites = 0
    /\ nmut = 0
    /\ bnk = Unused /\ preBnk = Unused /\ prevBnk = Unused /\ prevSink = Unused
    /\ pp = Unused /\ reread = Unused

ReadEntry ==
    /\ pc = "start"
    /\ \E build \in Builds :
          With(Hirc_read_entries(Reader(input), 1, <<>>, build), LAMBDA res :
          /\ pc' = Outcome(res)
          /\ entry' = (IF res.ok THEN res.v[1] ELSE <<>>)
          /\ err' = res.e
          /\ consumed' = res.r.pos)
    /\ UNCHANGED <<wem, hist, loop, fault, input, sink, preEntry, nwrites, nmut, bnk, preBnk, prevBnk,
                   prevSink, pp, reread>>

HasEntry == pc \in {"decoded", "written"}

IsMusicRanSeqCntr(e) == e.kind = "MusicRanSeqCntr"

LeafItem ==
    [head |-> Zeros(PlaylistItemHeadSize), num_children |-> 0,
     mid |-> Zeros(PlaylistItemMidSize), play_list |-> <<>>]

Edited(newPayload) ==
    /\ nmut < MaxMutations
    /\ newPayload # entry.payload
    /\ entry' = [entry EXCEPT !.payload = newPayload]
    /\ pc' = "decoded"
    /\ nmut' = nmut + 1
    /\ nwrites' = 0
    /\ UNCHANGED <<wem, hist, loop, fault, input, err, sink, preEntry, consumed, bnk, preBnk, prevBnk,
                   prevSink, pp, reread>>

\* A node is added at the top level of the forest.
PushItem ==
    /\ HasEntry /\ IsMusicRanSeqCntr(entry)
    /\ Edited([entry.payload EXCEPT !.play_list_items = Append(@, LeafItem)])

\* A child is added under the first top-level node.
PushChild ==
    /\ HasEntry /\ IsMusicRanSeqCntr(entry)
    /\ Len(entry.payload.play_list_items) > 0
    /\ Edited([entry.payload EXCEPT
                  !.play_list_items[1].play_list = Append(@, LeafItem),
                  !.play_list_items[1].num_children = @ + 1])

\* The last top-level node is removed with its subtree.
PopItem ==
    /\ HasEntry /\ IsMusicRanSeqCntr(entry)
    /\ Len(entry.payload.play_list_items) > 0
    /\ Edited([entry.payload EXCEPT !.play_list_items = SubSeq(@, 1, Len(@) - 1)])

\* The stored total is overwritten.
SetStoredCount ==
    /\ HasEntry /\ IsMusicRanSeqCntr(entry)
    /\ \E n \in 0..3 : Edited([entry.payload EXCEPT !.num_play_list_items = n])

\* A child is added under the first top-level node, the list alone.
PushChildOnly ==
    /\ HasEntry /\ IsMusicRanSeqCntr(entry)
    /\ Len(entry.payload.play_list_items) > 0
    /\ Edited([entry.payload EXCEPT
                  !.play_list_items[1].play_list = Append(@, LeafItem)])

IsEventAction(e) == e.kind = "EventAction"

\* A parameter is added to the two parameter lists of an EventAction.
PushParameter ==
    /\ HasEntry /\ IsEventAction(entry)
    /\ Edited([entry.payload EXCEPT
                  !.parameter_types = Append(@, Named(ParamType_Max)),
                  !.parameters = Append(@, 9)])

\* The last parameter is removed from the two parameter lists.
PopParameter ==
    /\ HasEntry /\ IsEventAction(entry)
    /\ Len(entry.payload.parameter_types) > 0
    /\ Len(entry.payload.parameters) > 0
    /\ Edited([entry.payload EXCEPT
                  !.parameter_types = SubSeq(@, 1, Len(@) - 1),
                  !.parameters = SubSeq(@, 1, Len(@) - 1)])

WriteEntry ==
    /\ HasEntry
    /\ nwrites < MaxWrites
    /\ With(HircEntry_write_to(Writer, entry), LAMBDA res :
       /\ entry' = res.v
       /\ sink' = res.w.buf)
    /\ pc' = "written"
    /\ preEntry' = entry
    /\ nwrites' = nwrites + 1
    /\ UNCHANGED <<wem, hist, loop, fault, input, err, consumed, nmut, bnk, preBnk, prevBnk, prevSink, pp,
                   reread>>

NextHirc ==
    \/ ReadEntry \/ PushItem \/ PushChild \/ PushChildOnly \/ PopItem \/ SetStoredCount
    \/ PushParameter \/ PopParameter \/ WriteEntry

SpecHirc == InitHirc /\ [][NextHirc]_vars

(***************************************************************************)
(* The PositioningParams specification: every value of the flags byte in   *)
(* front of a few tails; the record is decoded, encoded, and the encoding  *)
(* decoded again.                                                          *)
(***************************************************************************)
\* A tail laid out for the flags that have the 3D byte and the automation
\* (one vertex, one playlist item), one for the flags that have the
\* automation alone, a tail of zeros, one stray byte, and none.
PosTails ==
    {<<7, 2>> \o Ramp(4, 0) \o u32_to_le(1) \o Ramp(AkPathVertexSize, 30)
        \o u32_to_le(1) \o Ramp(AkPathListItemOffsetSize, 50)
        \o Ramp(Ak3DAutomationParamsSize, 60) \o <<99, 98>>,
     <<AkPathModeMax>> \o <<0, 0, 0, 0>> \o u32_to_le(0) \o u32_to_le(1)
        \o Ramp(AkPathListItemOffsetSize, 50) \o Ramp(Ak3DAutomationParamsSize, 60)
        \o <<99>>,
     Zeros(16),
     <<5>>,
     <<>>}

PosInputs == {<<flags>> \o tail : flags \in Byte, tail \in PosTails}

InitPos ==
    /\ input \in PosInputs
    /\ pc = "start"
    /\ fault = NoFault
    /\ loop = NoLoop
    /\ wem = NoWem /\ hist = NoWem
    /\ pp = <<>>
    /\ err = NoErr
    /\ sink = <<>>
    /\ consumed = 0
    /\ reread = <<>>
    /\ nwrites = 0
    /\ nmut = 0
    /\ bnk = Unused /\ preBnk = Unused /\ prevBnk = Unused /\ prevSink = Unused
    /\ entry = Unused /\ preEntry = Unused

ReadPositioning ==
    /\ pc = "start"
    /\ With(PositioningParams_read_options(Reader(input)), LAMBDA res :
       /\ pc' = Outcome(res)
       /\ pp' = res.v
       /\ err' = res.e
       /\ consumed' = res.r.pos)
    /\ UNCHANGED <<wem, hist, loop, fault, input, sink, reread, nwrites, nmut, bnk, preBnk, prevBnk, prevSink,
                   entry, preEntry>>

WritePositioning ==
    /\ pc = "decoded"
    /\ sink' = PositioningParams_write_options(pp)
    /\ pc' = "encoded"
    /\ nwrites' = nwrites + 1
    /\ UNCHANGED <<wem, hist, loop, fault, input, pp, err, consumed, reread, nmut, bnk, preBnk, prevBnk,
                   prevSink, entry, preEntry>>

ReadBack ==
    /\ pc = "encoded"
    /\ With(PositioningParams_read_options(Reader(sink)), LAMBDA res :
       reread' = [ok |-> res.ok, v |-> res.v, consumed |-> res.r.pos])
    /\ pc' = "reread"
    /\ UNCHANGED <<wem, hist, loop, fault, input, pp, err, sink, consumed, nwrites, nmut, bnk, preBnk, prevBnk,
                   prevSink, entry, preEntry>>

NextPos == ReadPositioning \/ WritePositioning \/ ReadBack

SpecPos == InitPos /\ [][NextPos]_vars

(***************************************************************************)
(* The bank-level specification over a device that fails: the fault.at-th  *)
(* read of the decode fails once with an I/O error other than              *)
(* UnexpectedEof.  fault.left is what is left of that count when           *)
(* from_reader returns: 0 when the failure has happened.                   *)
(***************************************************************************)
IoInputs ==
    {<<3, 0, 0, 0, 1, 2, 3>>,
     Bkhd2 \o <<3, 0, 0, 0, 1, 2, 3>>,
     Bkhd0 \o UnkSec,
     Bkhd0 \o UnkSec \o UnkSec,
     DidxOf(<<2, 1>>, "reversed") \o DataOf(<<2, 1>>, "reversed", 1) \o Bkhd2,
     Bkhd0 \o DidxOf(<<1, 2>>, "packed") \o DataOf(<<1, 2>>, "packed", 0),
     Bkhd0 \o HircOf(<<EventEntry(14, <<77>>), OpaqueEntry(T_Settings, 11, <<5, 6>>)>>),
     HircOf(<<Whole(T_Sound, 30, SoundPayload(0, <<1, 2>>))>>)}

InitIO ==
    /\ input \in IoInputs
    /\ pc = "start"
    /\ fault \in {[at |-> k, left |-> k] : k \in 1..MaxFaultAt}
    /\ loop = NoLoop
    /\ wem = NoWem /\ hist = NoWem
    /\ bnk = <<>>
    /\ err = NoErr
    /\ sink = <<>>
    /\ preBnk = <<>>
    /\ prevBnk = <<>>
    /\ prevSink = <<>>
    /\ nwrites = 0
    /\ nmut = 0
    /\ consumed = 0
    /\ entry = Unused /\ preEntry = Unused /\ pp = Unused /\ reread = Unused

FromFaultyReader ==
    /\ pc = "start"
    /\ \E build \in Builds :
          With(Bnk_from_reader(FaultyReader(input, fault.at), build), LAMBDA res :
          /\ pc' = Outcome(res)
          /\ bnk' = (IF res.ok THEN res.v ELSE <<>>)
          /\ err' = res.e
          /\ consumed' = res.r.pos
          /\ fault' = [fault EXCEPT !.left = res.r.fault])
    /\ UNCHANGED <<wem, hist, loop, input, sink, preBnk, prevBnk, prevSink, nwrites, nmut,
                   entry, preEntry, pp, reread>>

NextIO == FromFaultyReader \/ WriteTo

SpecIO == InitIO /\ [][NextIO]_vars

(***************************************************************************)
(* The loops of decode, one turn at a time: the loop over the sections of  *)
(* Bnk::from_reader, the loop over the entries of a HIRC section and the   *)
(* loop over the top-level items of a playlist.  loop.began is the reader  *)
(* position at which the last turn began, loop.turns the number of turns.  *)
(***************************************************************************)
\* A HIRC section: the loop starts after the entry count has been read.
EntryLoopInputs ==
    HircSections
    \cup {Sec(MAGIC_HIRC, u32_to_le(3) \o OpaqueEntry(19, 13, <<>>) \o EventEntry(14, <<>>)),
          Sec(MAGIC_HIRC, u32_to_le(2) \o Entry(T_Event, 0, 14, EventPayload(0))
                          \o Entry(T_Event, 0, 15, EventPayload(1)))}

\* The total node count and the items of a playlist: the loop starts after
\* the total has been read.
ItemLoopInputs ==
    {u32_to_le(total) \o Flatten([i \in 1..Len(forest) |-> ItemBytes(forest[i])]) :
        total \in 0..3, forest \in Forests}

LoopAt(level, r, left) ==
    [level |-> level, r |-> r, began |-> r.pos, turns |-> 0, sections |-> <<>>,
     left |-> left]

LoopStarts ==
    {[input |-> i, loop |-> LoopAt("section", Reader(i), 0)] : i \in BankInputs}
    \cup {[input |-> i,
           loop |-> LoopAt("entry", seek(Reader(i), 12), u32_from_le(SubSeq(i, 9, 12)))] :
             i \in EntryLoopInputs}
    \cup {[input |-> i,
           loop |-> LoopAt("item", seek(Reader(i), 4), u32_from_le(SubSeq(i, 1, 4)))] :
             i \in ItemLoopInputs}

InitLoop ==
    /\ \E s \in LoopStarts : input = s.input /\ loop = s.loop
    /\ pc = "start"
    /\ fault = NoFault
    /\ wem = NoWem /\ hist = NoWem
    /\ err = NoErr
    /\ consumed = 0
    /\ nwrites = 0
    /\ nmut = 0
    /\ sink = Unused
    /\ bnk = Unused /\ preBnk = Unused /\ prevBnk = Unused /\ prevSink = Unused
    /\ entry = Unused /\ preEntry = Unused /\ pp = Unused /\ reread = Unused

InLoop == pc \in {"start", "looping"} /\ loop.turns < MaxTurns

\* The loop after a turn that left the reader at r.
Turned(r, sections, left) ==
    [loop EXCEPT !.r = r, !.began = loop.r.pos, !.turns = @ + 1,
                 !.sections = sections, !.left = left]

\* One turn of the loop of Bnk::from_reader.
SectionTurn ==
    /\ InLoop /\ loop.level = "section"
    /\ \E build \in Builds :
          With(MagicRead(read_exact(loop.r, 4)), LAMBDA magic :
          IF ~magic.ok
          THEN /\ pc' = "decoded"
               /\ loop' = Turned(magic.r, loop.sections, 0)
               /\ err' = NoErr
          ELSE With(IF magic.v = MAGIC_DATA
                    THEN Data_from_reader(magic.r, magic.v, loop.sections)
                    ELSE Section_from_reader(magic.r, magic.v, build), LAMBDA section :
               /\ pc' = (IF section.ok THEN "looping" ELSE Outcome(section))
               /\ loop' = Turned(section.r,
                                 IF section.ok THEN Append(loop.sections, section.v)
                                 ELSE loop.sections, 0)
               /\ err' = section.e))
    /\ UNCHANGED <<wem, hist, fault, input, sink, bnk, preBnk, prevBnk, prevSink, nwrites, nmut,
                   entry, preEntry, pp, consumed, reread>>

\* One turn of the loop over the entries of a HIRC section (for _ in 0..count).
EntryTurn ==
    /\ InLoop /\ loop.level = "entry" /\ loop.left > 0
    /\ \E build \in Builds :
          With(Hirc_read_entries(loop.r, 1, <<>>, build), LAMBDA hirc_entry :
          /\ pc' = (IF ~hirc_entry.ok THEN Outcome(hirc_entry)
                    ELSE IF loop.left = 1 THEN "decoded" ELSE "looping")
          /\ loop' = Turned(hirc_entry.r, loop.sections, loop.left - 1)
          /\ err' = hirc_entry.e)
    /\ UNCHANGED <<wem, hist, fault, input, sink, bnk, preBnk, prevBnk, prevSink, nwrites, nmut,
                   entry, preEntry, pp, consumed, reread>>

\* One turn of the loop of MusicRanSecCntrInitialValues::read_options: an item
\* is read and its node count compared with the total (loop.left).
ItemTurn ==
    /\ InLoop /\ loop.level = "item"
    /\ With(AkMusicRanSeqPlaylistItem_read(loop.r), LAMBDA play_list_item :
       /\ pc' = (IF ~play_list_item.ok THEN "failed"
                 ELSE IF get_num_recursive(play_list_item.v) < loop.left THEN "looping"
                 ELSE IF get_num_recursive(play_list_item.v) = loop.left THEN "decoded"
                 ELSE "failed")
       /\ loop' = Turned(play_list_item.r, loop.sections, loop.left)
       /\ err' = (IF ~play_list_item.ok THEN play_list_item.e
                  ELSE IF get_num_recursive(play_list_item.v) > loop.left
                  THEN ErrBinrw("AssertFail") ELSE NoErr))
    /\ UNCHANGED <<wem, hist, fault, input, sink, bnk, preBnk, prevBnk, prevSink, nwrites, nmut,
                   entry, preEntry, pp, consumed, reread>>

NextLoop == SectionTurn \/ EntryTurn \/ ItemTurn

SpecLoop == InitLoop /\ [][NextLoop]_vars

(***************************************************************************)
(* The entry reader of an archive (pck.rs).  wem is the Option returned by *)
(* Pck::wem_reader: a PckWemReader holds the reader of the archive, the    *)
(* entry and read_size, the number of bytes it has given so far.  hist     *)
(* records what the calls of read have done: the bytes given, the number   *)
(* of calls, the seeks, and for the last call its buffer length, the       *)
(* read_size it began with, its result and whether it has sought.          *)
(***************************************************************************)
PckWemEntry(id, offset, length) ==
    [id |-> id, one |-> 1, length |-> length, offset |-> offset, language_id |-> 0]

PckWemReader_new(reader, e) == [reader |-> reader, entry |-> e, read_size |-> 0]

\* Pck::wem_reader
Pck_wem_reader(reader, wem_entries, index) ==
    IF index >= Len(wem_entries) THEN None
    ELSE Some(PckWemReader_new(reader, wem_entries[index + 1]))

\* The test at the head of read: whether this call seeks to the entry.
SeeksNow(read_size) == read_size = 0

\* let available = self.entry.length as usize - self.read_size;
Available_whole(length, read_size) == length

Available(length, read_size) == length - read_size

\* impl io::Read for PckWemReader: read into a buffer of n bytes.  The
\* result is the reader after the call and Ok(bytes) or the error.
PckWemReader_read(self, n) ==
    LET sought == IF SeeksNow(self.read_size)
                  THEN seek(self.reader, self.entry.offset)
                  ELSE self.reader
        available == Available(self.entry.length, self.read_size)
        size == IF n > available THEN available ELSE n
    IN  IF available = 0
        THEN Ok([self EXCEPT !.reader = sought], <<>>)
        ELSE With(read_exact(sought, size), LAMBDA x :
             IF x.ok
             THEN Ok([self EXCEPT !.reader = x.r, !.read_size = @ + size], x.v)
             ELSE Fail([self EXCEPT !.reader = x.r], x.e))

\* The archives: a stream of bytes and the entries of its header.  The
\* second entry is empty, the range of the last one ends after the stream.
PckStreams == {<<11, 12, 13, 14, 15, 16>>, <<21, 22, 23, 24>>}

PckEntries ==
    <<PckWemEntry(101, 1, 3), PckWemEntry(102, 2, 0), PckWemEntry(103, 3, 5)>>

NoCalls ==
    [given |-> <<>>, calls |-> 0, seeks |-> 0,
     last |-> [n |-> 0, before |-> 0, sought |-> FALSE, ok |-> TRUE, size |-> 0,
               e |-> NoErr, moved |-> FALSE]]

InitPck ==
    /\ input \in PckStreams
    /\ pc = "start"
    /\ wem = NoWem /\ hist = NoCalls
    /\ loop = NoLoop
    /\ fault = NoFault
    /\ err = NoErr
    /\ consumed = 0
    /\ nwrites = 0
    /\ nmut = 0
    /\ sink = Unused
    /\ bnk = Unused /\ preBnk = Unused /\ prevBnk = Unused /\ prevSink = Unused
    /\ entry = Unused /\ preEntry = Unused /\ pp = Unused /\ reread = Unused

\* pck.wem_reader(index)
WemReader ==
    /\ pc = "start"
    /\ \E index \in 0..(Len(PckEntries) + 1) :
          /\ wem' = Pck_wem_reader(Reader(input), PckEntries, index)
          /\ consumed' = index
          /\ pc' = IF wem'.some THEN "opened" ELSE "refused"
    /\ UNCHANGED <<hist, loop, fault, input, err, sink, nwrites, nmut, bnk, preBnk,
                   prevBnk, prevSink, entry, preEntry, pp, reread>>

\* reader.read(&mut buf) with a buffer of n bytes
Read ==
    /\ pc = "opened" /\ hist.calls < MaxReads
    /\ \E n \in 0..MaxBufLen :
          With(PckWemReader_read(wem.x, n), LAMBDA res :
          /\ wem' = Some(res.r)
          /\ err' = res.e
          /\ hist' = [given |-> hist.given \o res.v,
                      calls |-> hist.calls + 1,
                      seeks |-> hist.seeks
                                + (IF SeeksNow(wem.x.read_size) THEN 1 ELSE 0),
                      last |-> [n |-> n, before |-> wem.x.read_size,
                                sought |-> SeeksNow(wem.x.read_size),
                                ok |-> res.ok, size |-> Len(res.v), e |-> res.e,
                                moved |-> res.r.reader.pos # wem.x.reader.pos]])
    /\ UNCHANGED <<pc, loop, fault, input, consumed, sink, nwrites, nmut, bnk, preBnk,
                   prevBnk, prevSink, entry, preEntry, pp, reread>>

NextPck == WemReader \/ Read

SpecPck == InitPck /\ [][NextPck]_vars

(***************************************************************************)
(* Properties of the bank-level specification.                             *)
(***************************************************************************)
Encoded == pc \in {"written", "writefailed"} /\ nwrites >= 1

\* C1: round-trip identity: write_to on the unmodified result of a successful
\* from_reader produces exactly the input bytes.
C1_RoundTrip == (pc = "written" /\ nmut = 0) => sink = input

\* C2: idempotent encode: a second write_to in a row, into a fresh sink,
\* yields the same bytes as the first and leaves the Bnk as the first left it.
C2_IdempotentEncode == (Encoded /\ nwrites >= 2) => (sink = prevSink /\ bnk = prevBnk)

C2_Witness ==
    /\ pc = "written" /\ nwrites = 2 /\ DataIndices(bnk) # {}
    /\ sink # input /\ Len(sink) > 0

SinglePair(b) == Cardinality(DidxIndices(b)) = 1 /\ Cardinality(DataIndices(b)) = 1

TheDidx(b) == b[MaxOf(DidxIndices(b))].payload.entries
TheData(b) == b[MaxOf(DataIndices(b))].payload.data_list

RECURSIVE SumLens(_, _)
SumLens(blobs, n) == IF n = 0 THEN 0 ELSE Len(blobs[n]) + SumLens(blobs, n - 1)

\* C3: DIDX normalize: with one DataIndex and one Data section of equal
\* counts, after write_to entry i has the length of blob i and the sum of the
\* lengths of blobs 0..i-1 as offset, whatever was stored before; ids are
\* unchanged.
C3_DidxNormalize ==
    (Encoded /\ SinglePair(preBnk) /\ Len(TheDidx(preBnk)) = Len(TheData(preBnk)))
    => /\ Len(TheDidx(bnk)) = Len(TheDidx(preBnk))
       /\ \A i \in 1..Len(TheDidx(bnk)) :
            /\ TheDidx(bnk)[i].length = Len(TheData(preBnk)[i])
            /\ TheDidx(bnk)[i].offset = SumLens(TheData(preBnk), i - 1)
            /\ TheDidx(bnk)[i].id = TheDidx(preBnk)[i].id

C3_Witness ==
    /\ Encoded /\ SinglePair(preBnk) /\ Len(TheDidx(preBnk)) = 2
    /\ Len(TheData(preBnk)) = 2 /\ Len(TheData(preBnk)[1]) > 0
    /\ TheDidx(preBnk)[2].offset # TheDidx(bnk)[2].offset

HasPair(b) == DidxIndices(b) # {} /\ DataIndices(b) # {}

\* C4: when the DataIndex and the Data section of a bank differ in count,
\* write_to fails with BadDataSize, writes no byte and leaves every IndexEntry
\* unchanged.  (The DataIndex and the Data section are the ones normalize
\* locates: the last of each.)
C4_CountMismatch ==
    (nwrites >= 1 /\ HasPair(preBnk) /\ Len(TheDidx(preBnk)) # Len(TheData(preBnk)))
    => /\ pc = "writefailed"
       /\ err.kind = "BadDataSize"
       /\ sink = <<>>
       /\ bnk = preBnk

C4_Witness ==
    /\ nwrites >= 1 /\ pc = "writefailed" /\ SinglePair(preBnk)
    /\ Len(TheDidx(preBnk)) < Len(TheData(preBnk))

IsPrefix(a, b) == Len(a) <= Len(b) /\ SubSeq(b, 1, Len(a)) = a

\* The streams in which the DATA magic comes first or right after a header
\* section: no DataIndex has been decoded when the magic is read.
DataMagicAt(i) ==
    IF IsPrefix(MAGIC_DATA, i) THEN 0
    ELSE IF IsPrefix(Bkhd0 \o MAGIC_DATA, i) THEN Len(Bkhd0)
    ELSE -1

\* C5 as stated: a DATA magic read before any DataIndex makes decode fail with
\* the missing-data-index error.
C5_MissingDidx_Original ==
    (pc # "start" /\ DataMagicAt(input) >= 0)
    => (pc = "failed" /\ err.kind = "MissingDidx")

\* C5 (amended): a DATA magic read before any DataIndex makes decode fail and
\* return no bank: with the missing-data-index error when the four bytes of
\* the length after the magic can be read, with an IO error when the stream
\* ends inside them.
C5_MissingDidx ==
    (pc # "start" /\ DataMagicAt(input) >= 0)
    => /\ pc = "failed" /\ bnk = <<>>
       /\ err.kind = IF Len(input) >= DataMagicAt(input) + 8 THEN "MissingDidx"
                     ELSE "IO"

C5_Witness ==
    /\ pc = "failed" /\ err.kind = "MissingDidx" /\ DataMagicAt(input) >= 0
    /\ Len(input) > DataMagicAt(input) + 8

(***************************************************************************)
(* Properties of the entry-level specification.                            *)
(***************************************************************************)
DeclaredLength(stream) == u32_from_le(SubSeq(stream, 2, 1 + 4))

\* The offset of the first payload byte of an entry: kind tag, length, id.
PayloadStart == 1 + 4 + IdSize

\* The stream holds a whole entry of a kind without a structured decoder.
WholeOpaqueEntry(stream) ==
    /\ Len(stream) >= PayloadStart
    /\ stream[1] \notin StructuredTags
    /\ DeclaredLength(stream) >= IdSize
    /\ Len(stream) >= 1 + 4 + DeclaredLength(stream)

\* C6: lossless opaque fallback: for every kind tag t in 0..255 other than
\* Sound, EventAction, Event, MusicSegment, MusicTrack and MusicRanSeqCntr,
\* decoding an entry with tag t reads exactly declared_length - 4 payload
\* bytes verbatim, and encoding it again emits the tag byte t, the same id and
\* the same payload bytes.
C6_OpaqueFallback ==
    (pc # "start" /\ WholeOpaqueEntry(input))
    => /\ HasEntry
       /\ consumed = 1 + 4 + DeclaredLength(input)
       /\ entry.payload.data = SubSeq(input, PayloadStart + 1, consumed)
       /\ pc = "written"
          => /\ sink[1] = input[1]
             /\ SubSeq(sink, 1 + 4 + 1, PayloadStart) = SubSeq(input, 1 + 4 + 1, PayloadStart)
             /\ SubSeq(sink, PayloadStart + 1, Len(sink))
                   = SubSeq(input, PayloadStart + 1, consumed)

\* The number of nodes of a playlist forest, counted on the tree itself.
RECURSIVE Descendants(_)
Descendants(item) ==
    SumSeq([i \in 1..Len(item.play_list) |-> 1 + Descendants(item.play_list[i])])

NodeCount(forest) == SumSeq([i \in 1..Len(forest) |-> 1 + Descendants(forest[i])])

\* C7: recursive count invariant: for every successfully decoded
\* MusicRanSeqCntr payload the stored total node count equals the sum, over
\* the decoded top-level playlist items, of 1 + the number of descendants of
\* the item.
C7_RecursiveCount ==
    (pc = "decoded" /\ nmut = 0 /\ IsMusicRanSeqCntr(entry))
    => entry.payload.num_play_list_items = NodeCount(entry.payload.play_list_items)

\* The total node count as it stands in the encoded entry: the u32 after the
\* MusicTransNodeParams of the payload.
CountOffset(e) == PayloadStart + Len(MusicTransNodeParams_write(e.payload.music_trans_node_params))

WrittenCount(e, stream) ==
    u32_from_le(SubSeq(stream, CountOffset(e) + 1, CountOffset(e) + 4))

\* C8: on encode of a MusicRanSeqCntr the total node count written to the
\* stream is the node count of the forest as it is when write_to is called
\* (sum over the top-level items of 1 + descendants), whatever count was
\* stored, and the entry keeps the recomputed count.
C8_CountRecomputed ==
    (pc = "written" /\ IsMusicRanSeqCntr(preEntry))
    => /\ WrittenCount(preEntry, sink) = NodeCount(preEntry.payload.play_list_items)
       /\ entry.payload.num_play_list_items = NodeCount(preEntry.payload.play_list_items)
       /\ entry.payload.play_list_items = preEntry.payload.play_list_items

\* write_to has run on a MusicRanSeqCntr whose stored count was stale after
\* an edit of the forest.
C8_Witness ==
    /\ pc = "written" /\ nmut > 0 /\ IsMusicRanSeqCntr(preEntry)
    /\ preEntry.payload.num_play_list_items # NodeCount(preEntry.payload.play_list_items)
    /\ NodeCount(preEntry.payload.play_list_items) >= 2
    /\ WrittenCount(preEntry, sink) = NodeCount(preEntry.payload.play_list_items)

MusicTags == {T_MusicSegment, T_MusicTrack, T_MusicRanSeqCntr}

\* The payload decoder of the entry ran to its end (the size check was made).
PayloadDecoderDone == pc # "start" /\ err.kind \notin {"Binrw", "IO"}

\* C10: for MusicSegment, MusicTrack and MusicRanSeqCntr entries decode
\* succeeds only if the bytes consumed by the payload decoder equal
\* declared_length - 4; on a mismatch it fails with BadDataSize whose expected
\* field is declared_length - 4, whose got field is the bytes consumed and
\* whose start field is the stream offset where the payload began.
C10_LengthCheck ==
    (PayloadDecoderDone /\ Len(input) >= PayloadStart /\ input[1] \in MusicTags /\ nmut = 0)
    => /\ HasEntry => consumed - PayloadStart = DeclaredLength(input) - 4
       /\ consumed - PayloadStart # DeclaredLength(input) - 4
          => /\ pc = "failed"
             /\ err.kind = "BadDataSize"
             /\ err.expected = Exact(DeclaredLength(input) - 4)
             /\ err.got = consumed - PayloadStart
             /\ err.start = PayloadStart

(***************************************************************************)
(* Properties of the PositioningParams specification.                      *)
(***************************************************************************)
\* C9: flag-conditional symmetry: for every value of the flags byte the
\* encoder writes exactly the fields the decoder reads for those flags:
\* decode followed by encode reproduces the bytes that were read, and decoding
\* the encoding consumes exactly the bytes written and gives the value back.
C9_FlagSymmetry ==
    /\ pc \in {"encoded", "reread"} => sink = SubSeq(input, 1, consumed)
    /\ pc = "reread" => /\ reread.ok
                        /\ reread.consumed = Len(sink)
                        /\ reread.v = pp

(***************************************************************************)
(* Byte accounting and the decode errors of the structured kinds.          *)
(***************************************************************************)
AccountedTags == {T_Sound, T_EventAction} \cup MusicTags

\* The stream ends before the declared_length - 4 bytes of the payload.
TruncatedEntry(stream) ==
    /\ Len(stream) >= PayloadStart
    /\ DeclaredLength(stream) >= IdSize
    /\ Len(stream) < 1 + 4 + DeclaredLength(stream)

\* The declared length is larger than what the structure took from a stream
\* that holds the declared bytes (the kinds without an opaque tail).
OverLongEntry(stream) ==
    /\ Len(stream) >= 1 + 4 + DeclaredLength(stream)
    /\ stream[1] \in MusicTags
    /\ PayloadDecoderDone
    /\ consumed - PayloadStart < DeclaredLength(stream) - 4

\* C11: byte accounting for Sound, EventAction, MusicSegment, MusicTrack and
\* MusicRanSeqCntr: on a truncated stream (it ends before declared_length - 4
\* payload bytes) and on an over-long one (declared_length larger than the
\* content of the structure) decode fails with BadDataSize: it returns no
\* entry and no other error.
C11_ByteAccounting ==
    (/\ pc # "start" /\ Len(input) >= PayloadStart /\ input[1] \in AccountedTags
     /\ TruncatedEntry(input) \/ OverLongEntry(input))
    => (pc = "failed" /\ err.kind = "BadDataSize")

\* The sound type byte of a Sound entry follows the first five fields.
SoundTypeAt == PayloadStart + SoundHeadSize + 1

\* C12: decoding a Sound entry whose sound type byte is neither 0 (Sfx) nor
\* 1 (Voice) fails with the UnknownSoundType error, and the decode of the
\* entries stops there.
C12_UnknownSoundType ==
    (/\ pc # "start" /\ Len(input) >= SoundTypeAt /\ input[1] = T_Sound
     /\ input[SoundTypeAt] > HircSoundType_Max)
    => (pc = "failed" /\ err.kind = "UnknownSoundType")

\* The scope byte is the first byte of the payload of an EventAction.
ScopeAt == PayloadStart + 1

\* C13: decoding an EventAction entry whose scope byte is outside 1..6 fails
\* with UnknownEventActionScope carrying that byte, and no field after the
\* scope byte is read: the reader is left right after it and no entry is
\* returned.
C13_UnknownScope ==
    (/\ pc # "start" /\ Len(input) >= ScopeAt /\ input[1] = T_EventAction
     /\ input[ScopeAt] \notin Scope_Min..Scope_Max)
    => /\ pc = "failed"
       /\ err.kind = "UnknownEventActionScope"
       /\ err.v = input[ScopeAt]
       /\ err.pos = ScopeAt
       /\ consumed = ScopeAt
       /\ entry = <<>>

\* A whole EventAction entry with scope byte 255 has been refused.
C13_Witness ==
    /\ pc = "failed" /\ err.kind = "UnknownEventActionScope" /\ err.v = 255
    /\ input[1] = T_EventAction /\ Len(input) > ScopeAt + EventActionFixedSize - IdSize

\* The bytes of an EventAction payload after the scope byte: action type,
\* game object id (4), one unknown byte, parameter count, parameter types.
ActionTypeAt == ScopeAt + 1
ParameterCountAt == ActionTypeAt + 4 + 1 + 1
ParameterTypeAt(i) == ParameterCountAt + i

\* A whole EventAction entry with a valid scope and a declared length that
\* covers its fixed fields and its parameters.
WholeEventAction(stream) ==
    /\ Len(stream) >= ParameterCountAt
    /\ stream[1] = T_EventAction
    /\ stream[ScopeAt] \in Scope_Min..Scope_Max
    /\ DeclaredLength(stream) >= EventActionFixedSize + 2 * stream[ParameterCountAt]
    /\ Len(stream) >= 1 + 4 + DeclaredLength(stream)

\* C14: open enums are lossless: for every byte b, an EventAction whose
\* action type byte is b, or one of whose parameter type bytes is b, decodes
\* without error and is encoded with that byte as it was.
C14_OpenEnums ==
    (pc # "start" /\ WholeEventAction(input))
    => /\ HasEntry
       /\ pc = "written"
          => /\ sink[ActionTypeAt] = input[ActionTypeAt]
             /\ \A i \in 1..input[ParameterCountAt] :
                   sink[ParameterTypeAt(i)] = input[ParameterTypeAt(i)]

\* C19: EventAction tail size: for an EventAction entry with parameter count n
\* and declared length L, decode reads n parameter type bytes, n parameter
\* value bytes, one byte and an opaque tail of exactly L - 13 - 2n bytes, so
\* that the entry takes exactly L bytes after the length field.
C19_EventActionTail ==
    (pc # "start" /\ nmut = 0 /\ WholeEventAction(input))
    => /\ HasEntry
       /\ entry.payload.parameter_count = input[ParameterCountAt]
       /\ Len(entry.payload.parameter_types) = input[ParameterCountAt]
       /\ entry.payload.parameters =
             SubSeq(input, ParameterTypeAt(input[ParameterCountAt]) + 1,
                    ParameterTypeAt(2 * input[ParameterCountAt]))
       /\ Len(entry.payload.data) =
             DeclaredLength(input) - 13 - 2 * input[ParameterCountAt]
       /\ entry.payload.data =
             SubSeq(input, ParameterTypeAt(2 * input[ParameterCountAt]) + 2,
                    1 + 4 + DeclaredLength(input))
       /\ consumed = 1 + 4 + DeclaredLength(input)

\* The entry of the example: two parameters, declared length 13 + 2*2 + 3,
\* a tail of three bytes.
C19_Witness ==
    /\ pc = "decoded" /\ WholeEventAction(input)
    /\ input[ParameterCountAt] = 2
    /\ DeclaredLength(input) = 13 + 2 * 2 + 3
    /\ entry.payload.data = <<7, 8, 9>>

\* Every child count of the forest is the length of the list it counts.
RECURSIVE ChildCountsMatch(_)
ChildCountsMatch(items) ==
    \A i \in 1..Len(items) :
        /\ items[i].num_children = Len(items[i].play_list)
        /\ ChildCountsMatch(items[i].play_list)

\* The entry decoded from the encoding.
Redecoded(stream) == Hirc_read_entries(Reader(stream), 1, <<>>, "release")

\* C16: derived count fields stay consistent after mutation: when the
\* children of a playlist item or the parameter lists of an EventAction were
\* changed before the encode, every count prefix written (child count of a
\* playlist item, parameter_count of an EventAction) is the number of
\* elements written after it, and decoding the output gives the structure
\* that was encoded.
C16_CountsConsistent ==
    /\ (pc = "written" /\ IsEventAction(preEntry))
       => /\ sink[ParameterCountAt] = Len(preEntry.payload.parameter_types)
          /\ sink[ParameterCountAt] = Len(preEntry.payload.parameters)
          /\ Redecoded(sink).ok
          /\ Redecoded(sink).v[1].payload = entry.payload
    /\ (pc = "written" /\ IsMusicRanSeqCntr(preEntry))
       => /\ ChildCountsMatch(entry.payload.play_list_items)
          /\ Len(entry.payload.play_list_items) = 1
             => /\ Redecoded(sink).ok
                /\ Redecoded(sink).v[1].payload = entry.payload

\* The number of nodes of a tree of the input generator (a tree is the
\* sequence of its children).
RECURSIVE TreeSize(_)
TreeSize(tree) == 1 + SumSeq([i \in 1..Len(tree) |-> TreeSize(tree[i])])

ForestSize(forest) == SumSeq([i \in 1..Len(forest) |-> TreeSize(forest[i])])

\* The shape of a decoded playlist item: the sequence of the shapes of its
\* children.
RECURSIVE ShapeOf(_)
ShapeOf(item) == [i \in 1..Len(item.play_list) |-> ShapeOf(item.play_list[i])]

\* The stream is a MusicRanSeqCntr entry with the given forest, the total
\* node count of that forest and the declared length that covers it.
IsForestEntry(stream, forest) ==
    stream = Whole(T_MusicRanSeqCntr, 25,
                   MusicRanSeqPayload(NodeBasePlain, ForestSize(forest), forest))

\* C17: playlist forest stop rule: the node counts of the top-level subtrees
\* are accumulated, decoding goes on with another sibling while the running
\* total is below the total node count and stops when it is equal: a forest
\* of k roots whose counts sum to the total node count decodes to exactly
\* those k roots.
C17_StopRule ==
    \A forest \in Forests :
        (pc # "start" /\ nmut = 0 /\ IsForestEntry(input, forest))
        => /\ HasEntry
           /\ [i \in 1..Len(entry.payload.play_list_items) |->
                  ShapeOf(entry.payload.play_list_items[i])] = forest
           /\ entry.payload.num_play_list_items = ForestSize(forest)

(***************************************************************************)
(* Properties of the specification over a failing device.                  *)
(***************************************************************************)
\* The failure has happened during the decode.
FaultHappened == pc # "start" /\ fault.at > 0 /\ fault.left = 0

\* C15: I/O errors are propagated: a failure of a read of the stream during
\* decode, the read of the 4-byte magic of a section and a failure other than
\* end-of-stream included, makes Bnk::from_reader return that IO error;
\* decode does not go on after the failed read.
C15_IoPropagated ==
    FaultHappened => (pc = "failed" /\ err = ErrIOOther /\ bnk = <<>>)

(***************************************************************************)
(* Length patching, measured on the bytes of the sink.                     *)
(***************************************************************************)
\* The bytes an entry puts after its length field: the id and the payload.
EntryBody(e) ==
    u32_to_le(e.id)
    \o HircEntryPayload_write(e.kind, HircEntryPayload_fix_values(e.kind, e.payload))

\* The entries es[i..] lie one after the other from position p of out, each
\* as tag, length of its body, body; the last one ends at position q.
RECURSIVE EntriesPatched(_, _, _, _, _)
EntriesPatched(out, p, q, es, i) ==
    IF i > Len(es) THEN p = q
    ELSE /\ p + 5 + Len(EntryBody(es[i])) <= q
         /\ u32_from_le(SubSeq(out, p + 2, p + 5)) = Len(EntryBody(es[i]))
         /\ SubSeq(out, p + 6, p + 5 + Len(EntryBody(es[i]))) = EntryBody(es[i])
         /\ EntriesPatched(out, p + 5 + Len(EntryBody(es[i])), q, es, i + 1)

\* The number of bytes the payload of a section puts into the sink.
PayloadBytes(sec) ==
    CASE sec.payload.type = "Bkhd" -> BkhdFixedSize + Len(sec.payload.unknown)
      [] sec.payload.type = "Didx" -> DidxEntrySize * Len(sec.payload.entries)
      [] sec.payload.type = "Hirc" ->
           4 + Len(Flatten([i \in 1..Len(sec.payload.entries) |->
                               <<0, 0, 0, 0, 0>> \o EntryBody(sec.payload.entries[i])]))
      [] sec.payload.type = "Data" ->
           Len(Flatten(sec.payload.data_list))
      [] OTHER -> Len(sec.payload.data)

\* The sections secs[i..] lie one after the other from position p of out,
\* each as magic, length of its payload, payload; the last one ends where out
\* ends, and the entries of a Hirc section are laid out in the same way.
RECURSIVE SectionsPatched(_, _, _, _)
SectionsPatched(out, p, secs, i) ==
    IF i > Len(secs) THEN p = Len(out)
    ELSE /\ p + 8 + PayloadBytes(secs[i]) <= Len(out)
         /\ SubSeq(out, p + 1, p + 4) = secs[i].magic
         /\ u32_from_le(SubSeq(out, p + 5, p + 8)) = PayloadBytes(secs[i])
         /\ secs[i].payload.type = "Hirc"
            => EntriesPatched(out, p + 12, p + 8 + PayloadBytes(secs[i]),
                              secs[i].payload.entries, 1)
         /\ SectionsPatched(out, p + 8 + PayloadBytes(secs[i]), secs, i + 1)

\* C18: length patching: in the output of a successful write_to every
\* section, and every entry of a Hirc section, carries as its length the
\* number of bytes emitted after the length field up to the end of the unit,
\* whatever length the structure stored, and the next unit starts right after.
C18_LengthPatching == pc = "written" => SectionsPatched(sink, 0, preBnk, 1)
(***************************************************************************)
(* The DATA section as decoded, measured on the bytes of the input.        *)
(***************************************************************************)
\* The bytes of the stream a decoded section stands for: magic, length and
\* payload.  A DataIndex section is read entry by entry, the other ones by
\* their length.
SectionSpan(sec) ==
    8 + (IF IsDidx(sec) THEN DidxEntrySize * Len(sec.payload.entries)
         ELSE sec.section_length)

RECURSIVE StartOf(_, _)
StartOf(secs, s) == IF s = 1 THEN 0 ELSE StartOf(secs, s - 1) + SectionSpan(secs[s - 1])

\* The data index of the Data section s: the first DataIndex section decoded.
IndexOf(secs, s) == secs[MinOf(DidxIndices(SubSeq(secs, 1, s - 1)))].payload.entries

BlobsAsIndexed(in, data_start, index, blobs) ==
    /\ Len(blobs) = Len(index)
    /\ \A i \in 1..Len(index) :
          blobs[i] = SubSeq(in, data_start + index[i].offset + 1,
                            data_start + index[i].offset + index[i].length)

\* The decode went on at position p after section s: the magic of the next
\* section was read there, or the stream has no four bytes left there.
ResumedAt(in, p, secs, s) ==
    IF s < Len(secs) THEN /\ p + 4 <= Len(in)
                          /\ SubSeq(in, p + 1, p + 4) = secs[s + 1].magic
    ELSE Len(in) < p + 4 /\ consumed = Len(in)

DataDecoded(in, secs, s) ==
    /\ SubSeq(in, StartOf(secs, s) + 1, StartOf(secs, s) + 4) = MAGIC_DATA
    /\ u32_from_le(SubSeq(in, StartOf(secs, s) + 5, StartOf(secs, s) + 8))
          = secs[s].section_length
    /\ BlobsAsIndexed(in, StartOf(secs, s) + 8, IndexOf(secs, s),
                      secs[s].payload.data_list)
    /\ ResumedAt(in, StartOf(secs, s) + 8 + secs[s].section_length, secs, s)

FreshlyDecoded == pc = "decoded" /\ nmut = 0

\* C20: DATA decode: blob i of a decoded Data section is the entry.length
\* bytes found at data_start + entry.offset for entry i of the data index, in
\* index order and one blob per entry, whatever the order of the offsets, and
\* decoding resumes at data_start + total_length wherever the last blob ended.
C20_DataDecode ==
    FreshlyDecoded => \A s \in DataIndices(bnk) : DataDecoded(input, bnk, s)

\* A Data section with slack after its blobs, its second blob stored before
\* its first, followed by another section.
C20_Witness ==
    /\ FreshlyDecoded /\ Len(bnk) = 3 /\ IsData(bnk[2])
    /\ Len(IndexOf(bnk, 2)) = 2
    /\ IndexOf(bnk, 2)[2].offset < IndexOf(bnk, 2)[1].offset
    /\ IndexOf(bnk, 2)[1].offset + IndexOf(bnk, 2)[1].length < bnk[2].section_length
    /\ Len(bnk[2].payload.data_list[1]) > 0 /\ Len(bnk[2].payload.data_list[2]) > 0
    /\ DataDecoded(input, bnk, 2)
(***************************************************************************)
(* Which DataIndex a Data section is cut by.                               *)
(***************************************************************************)
\* The DataIndex section decoded last before section s.
LatestIndexOf(secs, s) == secs[MaxOf(DidxIndices(SubSeq(secs, 1, s - 1)))].payload.entries

SeveralIndicesBefore(secs, s) == Cardinality(DidxIndices(SubSeq(secs, 1, s - 1))) >= 2

\* C21: a Data section decoded after two or more DataIndex sections has its
\* blobs cut by the entries of the DataIndex section decoded most recently.
C21_LatestIndex ==
    FreshlyDecoded
    => \A s \in DataIndices(bnk) :
          SeveralIndicesBefore(bnk, s)
          => BlobsAsIndexed(input, StartOf(bnk, s) + 8, LatestIndexOf(bnk, s),
                            bnk[s].payload.data_list)
(***************************************************************************)
(* Byte accounting of PositioningParams, measured on the input.            *)
(***************************************************************************)
PosDecoded == pc \in {"decoded", "encoded", "reread"} /\ pp # <<>>

FlagBit(n) == (input[1] \div (2 ^ n)) % 2

\* The bytes in front of the automation block: the flags, and the 3D byte
\* when bit 0 and bit 1 of the flags are both set.
PosHeadBytes == 1 + (IF FlagBit(0) = 1 /\ FlagBit(1) = 1 THEN 1 ELSE 0)

HasAutomationBits == FlagBit(5) = 1 \/ FlagBit(6) = 1

\* The two counts of the automation block, where the stream holds them when a
\* vertex takes vsize bytes.
VertexCountRead == u32_from_le(SubSeq(input, PosHeadBytes + 6, PosHeadBytes + 9))

ItemCountRead(vsize) ==
    u32_from_le(SubSeq(input, PosHeadBytes + 10 + vsize * VertexCountRead,
                       PosHeadBytes + 13 + vsize * VertexCountRead))

AutomationBytes(vsize, V, P) == 1 + 4 + 4 + vsize * V + 4 + 8 * P + 12 * P

PosAccounting(vsize) ==
    PosDecoded
    => /\ Len(pp.params) = Len(pp.play_list_items)
       /\ IF HasAutomationBits
          THEN /\ Len(pp.vertices) = VertexCountRead
               /\ Len(pp.play_list_items) = ItemCountRead(vsize)
               /\ consumed = PosHeadBytes
                             + AutomationBytes(vsize, VertexCountRead, ItemCountRead(vsize))
          ELSE consumed = PosHeadBytes

\* C22 as stated: decode consumes 1 byte of flags, 1 more iff bits 0 and 1
\* are both set and, iff bits 5-6 are nonzero, an automation block of
\* 1 + 4 + 4 + 12*V + 4 + 8*P + 12*P bytes; the automation-range list has the
\* length P of the playlist-offset list.
C22_ByteAccounting_Original == PosAccounting(12)

\* C22 (amended): as stated, with 16 bytes for each vertex (three f32 and
\* the i32 duration): the automation block takes
\* 1 + 4 + 4 + 16*V + 4 + 8*P + 12*P bytes.
C22_ByteAccounting == PosAccounting(AkPathVertexSize)

C22_Witness ==
    /\ PosDecoded /\ HasAutomationBits /\ PosHeadBytes = 2
    /\ Len(pp.vertices) = 1 /\ Len(pp.play_list_items) = 1 /\ Len(pp.params) = 1
    /\ consumed = 2 + AutomationBytes(AkPathVertexSize, 1, 1)
    /\ consumed < Len(input)
(***************************************************************************)
(* The end of the stream, measured on the input by the section framing     *)
(* magic, length, length bytes of payload.                                 *)
(***************************************************************************)
\* The position after the last whole section of the stream.
RECURSIVE FrameEnd(_, _)
FrameEnd(in, p) ==
    IF Len(in) - p < 8 THEN p
    ELSE IF p + 8 + u32_from_le(SubSeq(in, p + 5, p + 8)) > Len(in) THEN p
    ELSE FrameEnd(in, p + 8 + u32_from_le(SubSeq(in, p + 5, p + 8)))

\* The stream ends after 1 to 3 bytes of the magic of a section.
EndsInsideMagic(in) == Len(in) - FrameEnd(in, 0) \in 1..3

DecodeRejected == pc \in {"failed", "panicked"}

\* C23: the decode loop returns success only when the stream ends with zero
\* bytes of the next magic read: a stream that ends after 1 to 3 bytes of a
\* magic is not accepted as a bank.
C23_PartialMagic == (pc # "start" /\ EndsInsideMagic(input)) => DecodeRejected
(***************************************************************************)
(* Section framing, measured on the input.                                 *)
(***************************************************************************)
\* Where section s starts when every section before it takes its magic, its
\* length field and as many bytes as the length declares.
RECURSIVE FramedStartOf(_, _)
FramedStartOf(secs, s) ==
    IF s = 1 THEN 0 ELSE FramedStartOf(secs, s - 1) + 8 + secs[s - 1].section_length

\* Section s was read from the byte right after the declared payload of the
\* sections before it.
FramedAt(in, secs, s) ==
    /\ FramedStartOf(secs, s) + 8 <= Len(in)
    /\ SubSeq(in, FramedStartOf(secs, s) + 1, FramedStartOf(secs, s) + 4) = secs[s].magic
    /\ u32_from_le(SubSeq(in, FramedStartOf(secs, s) + 5, FramedStartOf(secs, s) + 8))
          = secs[s].section_length

NoDataSection(secs) == DataIndices(secs) = {}

\* C24: section framing: after a BKHD, DIDX, HIRC or unrecognized section is
\* decoded the reader is at the position of its magic + 8 + its declared
\* length: every section of the decoded bank was read from the byte right
\* after the declared payload of the section before it.
C24_SectionFraming ==
    (FreshlyDecoded /\ NoDataSection(bnk))
    => \A s \in 1..Len(bnk) : FramedAt(input, bnk, s)
(***************************************************************************)
(* Entry framing, measured on the input.                                   *)
(***************************************************************************)
\* C25: HIRC entry framing: after an entry of any kind is decoded the reader
\* is at the position of its kind tag + 5 + declared length: declared
\* length - 4 bytes were consumed after the id, for Event entries too.
C25_EntryFraming == HasEntry => consumed = 1 + 4 + DeclaredLength(input)
(***************************************************************************)
(* Declared lengths below the fixed part of what they measure.             *)
(***************************************************************************)
\* An entry whose declared length does not cover its fixed fields: the id of
\* an opaque entry, the 31 bytes of a Sound, the 13 bytes and the two bytes
\* per parameter of an EventAction.
UndersizedEntry(stream) ==
    /\ Len(stream) >= 1 + 4
    /\ \/ stream[1] \notin StructuredTags /\ DeclaredLength(stream) < IdSize
       \/ stream[1] = T_Sound /\ DeclaredLength(stream) < SoundFixedSize
       \/ /\ stream[1] = T_EventAction
          /\ Len(stream) >= ParameterCountAt
          /\ DeclaredLength(stream) < EventActionFixedSize + 2 * stream[ParameterCountAt]

\* C26: decode never aborts on an undersized length field: for an opaque
\* entry with declared length < 4, a Sound with declared length < 31 and an
\* EventAction with declared length < 13 + 2*parameter_count, from_reader
\* returns an error value: no subtraction underflows into a panic or into a
\* wrapped read size.
C26_NoAbort == (pc # "start" /\ UndersizedEntry(input)) => pc = "failed"
(***************************************************************************)
(* The pairing of a Data section with a DataIndex, seen from outside: the  *)
(* index decode cut the section by, the entries after write_to, and the    *)
(* places of the blobs in the output.                                      *)
(***************************************************************************)
HasIndexBefore(secs, s) == DidxIndices(SubSeq(secs, 1, s - 1)) # {}

\* The DataIndex section decode cuts the Data section s by.
DecodeIndex(secs, s) == MinOf(DidxIndices(SubSeq(secs, 1, s - 1)))

\* Where section s starts in the output when the sections before it were
\* written one after the other.
RECURSIVE WrittenStartOf(_, _)
WrittenStartOf(secs, s) ==
    IF s = 1 THEN 0 ELSE WrittenStartOf(secs, s - 1) + 8 + PayloadBytes(secs[s - 1])

\* The entries were rewritten from the sizes of the blobs.
NormalizedFrom(entries, blobs) ==
    /\ Len(entries) = Len(blobs)
    /\ \A i \in 1..Len(entries) :
          /\ entries[i].length = Len(blobs[i])
          /\ entries[i].offset = SumLens(blobs, i - 1)

\* Every blob lies in the output at the offset its entry gives.
PlacedBy(out, data_start, entries, blobs) ==
    /\ Len(entries) >= Len(blobs)
    /\ \A i \in 1..Len(blobs) :
          /\ data_start + entries[i].offset + Len(blobs[i]) <= Len(out)
          /\ SubSeq(out, data_start + entries[i].offset + 1,
                    data_start + entries[i].offset + Len(blobs[i])) = blobs[i]

PairedAcrossPhases(out, before, after, s) ==
    /\ HasIndexBefore(before, s)
    /\ NormalizedFrom(after[DecodeIndex(before, s)].payload.entries,
                      before[s].payload.data_list)
    /\ PlacedBy(out, WrittenStartOf(before, s) + 8,
                after[DecodeIndex(before, s)].payload.entries,
                before[s].payload.data_list)

\* C27: the pairing of DataIndex and Data is the same in the three phases:
\* the DataIndex decode cuts a Data section by is the one write_to rewrites
\* from the sizes of the blobs of that section and the one whose offsets
\* place the blobs in the output; write_to never indexes past the end of the
\* DataIndex.
C27_PairingConsistent ==
    nwrites >= 1
    => /\ pc # "panicked"
       /\ pc = "written"
          => \A s \in DataIndices(preBnk) : PairedAcrossPhases(sink, preBnk, bnk, s)
(***************************************************************************)
(* The extent of the blobs of a decoded Data section.                      *)
(***************************************************************************)
EntriesInside(entries, total_length) ==
    \A i \in 1..Len(entries) : entries[i].offset + entries[i].length <= total_length

\* C28: every blob decoded from a DATA section lies inside the section: each
\* IndexEntry used has offset + length <= the declared total length, and an
\* entry that points outside the section makes decode fail.
C28_BlobsInside ==
    FreshlyDecoded
    => \A s \in DataIndices(bnk) : EntriesInside(IndexOf(bnk, s), bnk[s].section_length)
(***************************************************************************)
(* Progress of the loops of decode.                                        *)
(***************************************************************************)
LoopGoesOn == pc = "looping"

\* C29: decode terminates: every turn of the section loop, of the HIRC entry
\* loop and of the playlist item loop that does not end the call leaves the
\* reader strictly after the position at which the turn began (after a DATA
\* section too, whatever the offsets of its blobs), so that the loops make
\* at most as many turns as the stream has bytes.
C29_Progress ==
    /\ LoopGoesOn => loop.r.pos > loop.began
    /\ loop.turns <= Len(input) + 1
    /\ loop.turns <= MaxTurns - 1

\* A turn decoded a DATA section whose second blob lies before its first, and
\* the loop goes on after it.
C29_Witness ==
    /\ LoopGoesOn /\ loop.level = "section" /\ loop.turns = 2
    /\ IsData(loop.sections[2])
    /\ Len(IndexOf(loop.sections, 2)) = 2
    /\ IndexOf(loop.sections, 2)[2].offset < IndexOf(loop.sections, 2)[1].offset
    /\ loop.r.pos = loop.began + 8 + loop.sections[2].section_length
(***************************************************************************)
(* C30: the entry reader of an archive.                                    *)
(***************************************************************************)
\* wem_reader(index) gives no reader exactly when index is not below the
\* number of entries, and otherwise a reader of the entry at index.
ReaderForIndex ==
    pc # "start" =>
        /\ wem.some <=> consumed < Len(PckEntries)
        /\ wem.some => wem.x.entry = PckEntries[consumed + 1]

WemRange == [from |-> wem.x.entry.offset, len |-> wem.x.entry.length]

\* The bytes given so far are the first bytes of the entry's range, in
\* order, and they are never more than entry.length.
GivenInOrder ==
    /\ Len(hist.given) <= WemRange.len
    /\ wem.x.read_size = Len(hist.given)
    /\ WemRange.from + Len(hist.given) <= Len(input)
    /\ hist.given = SubSeq(input, WemRange.from + 1, WemRange.from + Len(hist.given))

\* A call made once entry.length bytes have been given returns 0.
ZeroAtEnd == hist.last.before = WemRange.len => hist.last.ok /\ hist.last.size = 0

\* The number of bytes the last call asked the stream for.
Asked ==
    IF hist.last.n > WemRange.len - hist.last.before
    THEN WemRange.len - hist.last.before
    ELSE hist.last.n

\* A call fails only with UnexpectedEof, only when the stream ends before
\* the entry's range does, and it gives nothing; a call that asks for bytes
\* after the end of the stream fails; a call that succeeds gives the bytes
\* it asked for.
FailsAtEof ==
    /\ ~hist.last.ok =>
          /\ hist.last.e = ErrIO
          /\ hist.last.size = 0
          /\ WemRange.from + WemRange.len > Len(input)
    /\ WemRange.from + hist.last.before + Asked > Len(input) /\ Asked > 0
          => ~hist.last.ok
    /\ hist.last.ok => hist.last.size = Asked

\* The reader seeks on the first call of read only.
SeeksOnFirstOnly == hist.last.sought <=> hist.calls = 1

\* The reader seeks on each call of read that begins before any byte has
\* been given, and on no other.
SeeksWhileNothingGiven == hist.last.sought <=> hist.last.before = 0

ReadsOf(seeking) ==
    /\ ReaderForIndex
    /\ pc = "opened" => GivenInOrder
    /\ pc = "opened" /\ hist.calls > 0 => seeking /\ ZeroAtEnd /\ FailsAtEof

\* C30 as stated: wem_reader gives no reader for an index that is not below
\* the number of entries; the reader it gives seeks to entry.offset on the
\* first read only, gives the bytes of the entry's range in order and never
\* more than entry.length of them, returns 0 once they have all been given,
\* and fails with UnexpectedEof, giving nothing, where the stream ends
\* before the range does.
C30_EntryReader_Original == ReadsOf(SeeksOnFirstOnly)

\* C30 amended: the same, except that the reader seeks to entry.offset on
\* every read that begins before any byte has been given (the first read,
\* and the reads after it for as long as nothing has been given: after a
\* read into an empty buffer, after a read that failed, and every read of an
\* empty entry), and on no read after a byte has been given.
C30_EntryReader == ReadsOf(SeeksWhileNothingGiven)

\* C30 witness: the whole of a non-empty entry has been given by more than
\* one read, and a further read has returned 0 without seeking.
C30_Witness ==
    /\ pc = "opened" /\ hist.calls = 3
    /\ WemRange.len > 0 /\ Len(hist.given) = WemRange.len
    /\ hist.seeks = 1
    /\ hist.last.before = WemRange.len /\ hist.last.n > 0
    /\ hist.last.ok /\ hist.last.size = 0 /\ ~hist.last.sought

====
